---- MODULE Spec2Model ----
(***************************************************************************)
(* Job dispatch and validator-channel coordination of the facilitator:     *)
(* the Channel registry, the ValidatorConsumer message protocol, validator *)
(* and miner selection in Job.save, and the JobStatus history.             *)
(* Time is counted in whole seconds.                                       *)
(***************************************************************************)
EXTENDS Integers, Sequences, FiniteSets, TLC

\* ------------------------------------------------------------------------
\* Program constants
\* ------------------------------------------------------------------------
LIVENESS_WINDOW == 180
JOB_TIMEOUT == 330
LAST_JOBS_LIMIT == 10
WAIT_FIXED == 3
DOWNLOAD_PRESIGNED_URL_LIFETIME == 150
JOBS_RETENTION_PERIOD == 604800

FAILED == -2
REJECTED == -1
SENT == 0
ACCEPTED == 1
COMPLETED == 2
FINAL_STATUS_VALUES == {COMPLETED, REJECTED, FAILED}

INVALID_SIGNATURE == 3000
NOT_FOUND == 3001

DEBUG_ADDRESS == "5HBVrFGy6oYhhh71m9fFGYD7zbKyAeHnWN8i8s9fJTBMCtEE"

\* ------------------------------------------------------------------------
\* Bounds of the model
\* ------------------------------------------------------------------------
MaxJobs == 15
MaxSyncs == 1
DispatchTicks == 1
SelectJobs == 3
AuthTicks == 1
SyncTicks == 1
MaxWaitAge == 2

NULL == "NULL"
NULL_TIME == -1
NO_CODE == 0
\* A message.uuid that is not the text of a UUID.
MALFORMED_UUID == -1

\* Validator rows of the database, and the addresses a client may claim.
Validators == {"vA", "vB", DEBUG_ADDRESS}
Addresses == Validators \cup {"vX"}
\* Miner rows; the third has the address that select_miner looks for.
Miners == {"mA", "mB", DEBUG_ADDRESS}
\* Websocket consumers (channel names) and request-handling workers.
ConnIds == {"c1", "c2"}
Workers == {"w1", "w2"}
Uuids == 1..MaxJobs

\* Users and their UserPreferences rows: alice has none, bob prefers vB and
\* mB without exclusivity, carol prefers vB and mB exclusively, dave has an
\* exclusive row that names no validator and no miner.
Users == {"alice", "bob", "carol", "dave"}
HasPreferences(user) == user \in {"bob", "carol", "dave"}
PreferredValidators(user) == IF user \in {"bob", "carol"} THEN {"vB"} ELSE {}
PreferredMiners(user) == IF user \in {"bob", "carol"} THEN {"mB"} ELSE {}
Exclusive(user) == user \in {"carol", "dave"}

VARIABLES
    now,              \* the clock, django.utils.timezone.now()
    ticks,            \* how many times the clock advanced
    validator_active, \* Validator.is_active
    miner_active,     \* Miner.is_active
    channels,         \* Channel rows: name -> [validator, last_heartbeat]
    scope,            \* consumer scope["ss58_address"], NULL when absent
    conn,             \* consumer: [state, code]
    response,         \* the last Response a consumer sent to its client
    handler,          \* a handler suspended between its two queries
    layer,            \* channel layer: messages queued for each consumer
    ws_out,           \* job payloads a consumer forwarded to its validator
    jobs,             \* committed Job rows: uuid -> row
    statuses,         \* committed JobStatus rows: uuid -> rows in insertion order
    worker,           \* request-handling workers inside Job.save
    locks,            \* Miner rows locked by select_for_update: miner -> worker
    result,           \* what the last Job.save of each worker returned or raised
    version,          \* safe_config.JOB_REQUEST_VERSION
    syncs,            \* how many metagraph syncs ran
    machine_specs,    \* the validators whose machine specs were stored
    feedback          \* JobFeedback rows: job uuid -> row

vars == <<now, ticks, validator_active, miner_active, channels, scope, conn,
          response, handler, layer, ws_out, jobs, statuses, worker, locks, result,
          version, syncs, machine_specs, feedback>>

\* ------------------------------------------------------------------------
\* Helpers
\* ------------------------------------------------------------------------
Max(S) == CHOOSE x \in S : \A y \in S : y <= x

Range(f) == {f[x] : x \in DOMAIN f}

Front(s) == SubSeq(s, 1, Len(s) - 1)

Last(s) == s[Len(s)]

\* AbstractNodeQuerySet.with_last_job_time: Max("jobs__created_at"), NULL
\* when the node has no job.
with_last_job_time(jbs, field, node) ==
    LET ts == {jbs[u].created_at : u \in {x \in DOMAIN jbs : jbs[x][field] = node}}
    IN  IF ts = {} THEN NULL_TIME ELSE Max(ts)

\* ------------------------------------------------------------------------
\* JobStatus history
\* ------------------------------------------------------------------------
\* sorted(..., key=attrgetter("created_at")): a stable sort by created_at.
RECURSIVE SortedInsert(_, _)
SortedInsert(s, r) ==
    IF s = <<>> THEN <<r>>
    ELSE IF Last(s).created_at <= r.created_at THEN Append(s, r)
    ELSE Append(SortedInsert(Front(s), r), Last(s))

RECURSIVE statuses_ordered(_)
statuses_ordered(rows) ==
    IF rows = <<>> THEN <<>>
    ELSE SortedInsert(statuses_ordered(Front(rows)), Last(rows))

\* The row with the numerically highest status value.
status_highest(rows) ==
    rows[CHOOSE i \in 1..Len(rows) : \A j \in 1..Len(rows) : rows[j].status <= rows[i].status]

\* Job.status: the last row of the ordered history.
status(rows) == Last(statuses_ordered(rows))

\* A job counted as completed from the age of JOB_TIMEOUT on.
is_completed_at_timeout(job, rows, t) ==
    status(rows).status \in FINAL_STATUS_VALUES \/ job.created_at <= t - JOB_TIMEOUT

is_completed(job, rows, t) ==
    status(rows).status \in FINAL_STATUS_VALUES \/ job.created_at < t - JOB_TIMEOUT

\* JobStatus.Meta unique_job_status: whether inserting (job, value) violates it.
unique_job_status(rows, value) == \A i \in 1..Len(rows) : rows[i].status # value

\* ------------------------------------------------------------------------
\* Selection (Job.select_validator, Job.select_miner)
\* ------------------------------------------------------------------------
Outcome(kind, node) == [kind |-> kind, node |-> node]

\* Every validator that has a channel, whatever its heartbeat.
registered_validator_ids(chs, t) == {chs[c].validator : c \in DOMAIN chs}

\* Channel.objects.filter(last_heartbeat__gte=now() - timedelta(minutes=3))
connected_validator_ids(chs, t) ==
    {chs[c].validator : c \in {x \in DOMAIN chs : chs[x].last_heartbeat >= t - LIVENESS_WINDOW}}

\* A target looked up without asking for a signature.
select_target_unsigned(target, signed, validator_ids) ==
    IF target \in Validators /\ target \in validator_ids
    THEN {Outcome("ok", target)}
    ELSE {Outcome("Validator.DoesNotExist", NULL)}

\* The branch of select_validator for a job with target_validator_hotkey.
select_target(target, signed, validator_ids) ==
    IF ~signed THEN {Outcome("ValueError", NULL)}
    ELSE IF target \in Validators /\ target \in validator_ids
         THEN {Outcome("ok", target)}
         ELSE {Outcome("Validator.DoesNotExist", NULL)}

\* A selection that lets the IndexError of an empty candidate list through.
select_validator_index_error(user, target, signed, chs, jbs, t) ==
    LET validator_ids == connected_validator_ids(chs, t)
        preferred == IF HasPreferences(user) THEN PreferredValidators(user) ELSE {}
        available == validator_ids \cap preferred
        narrowed == IF preferred # {} /\ (available # {} \/ Exclusive(user))
                    THEN available ELSE validator_ids
        last(v) == with_last_job_time(jbs, "validator", v)
    IN  IF target # NULL
        THEN select_target(target, signed, validator_ids)
        ELSE IF DEBUG_ADDRESS \in Validators /\ DEBUG_ADDRESS \in narrowed
             THEN {Outcome("ok", DEBUG_ADDRESS)}
             ELSE IF narrowed = {} THEN {Outcome("IndexError", NULL)}
                  ELSE {Outcome("ok", v) :
                          v \in {x \in narrowed : \A y \in narrowed : last(x) <= last(y)}}

\* A selection that narrows to the preferred validators whenever the
\* preference is exclusive, also when no validator is preferred.
select_validator_exclusive_always(user, target, signed, chs, jbs, t) ==
    LET validator_ids == connected_validator_ids(chs, t)
        preferred == IF HasPreferences(user) THEN PreferredValidators(user) ELSE {}
        available == validator_ids \cap preferred
        narrowed == IF available # {} \/ Exclusive(user) THEN available ELSE validator_ids
        last(v) == with_last_job_time(jbs, "validator", v)
    IN  IF target # NULL
        THEN select_target(target, signed, validator_ids)
        ELSE IF DEBUG_ADDRESS \in Validators /\ DEBUG_ADDRESS \in narrowed
             THEN {Outcome("ok", DEBUG_ADDRESS)}
             ELSE IF narrowed = {} THEN {Outcome("Validator.DoesNotExist", NULL)}
                  ELSE {Outcome("ok", v) :
                          v \in {x \in narrowed : \A y \in narrowed : last(x) <= last(y)}}

\* The set of outcomes select_validator can produce: the database breaks ties
\* of last_job_time in an unspecified order.
select_validator(user, target, signed, chs, jbs, t) ==
    LET validator_ids == connected_validator_ids(chs, t)
        preferred == IF HasPreferences(user) THEN PreferredValidators(user) ELSE {}
        available == validator_ids \cap preferred
        narrowed == IF preferred # {} /\ (available # {} \/ Exclusive(user))
                    THEN available ELSE validator_ids
        last(v) == with_last_job_time(jbs, "validator", v)
    IN  IF target # NULL
        THEN select_target(target, signed, validator_ids)
        ELSE IF DEBUG_ADDRESS \in Validators /\ DEBUG_ADDRESS \in narrowed
             THEN {Outcome("ok", DEBUG_ADDRESS)}
             ELSE IF narrowed = {} THEN {Outcome("Validator.DoesNotExist", NULL)}
                  ELSE {Outcome("ok", v) :
                          v \in {x \in narrowed : \A y \in narrowed : last(x) <= last(y)}}

\* The jobs of a miner, and the 10 most recently created of them
\* (last_jobs_subquery); equal creation times are ordered by uuid.
jobs_of(jbs, m) == {u \in DOMAIN jbs : jbs[u].miner = m}

newer(jbs, w, u) ==
    \/ jbs[w].created_at > jbs[u].created_at
    \/ jbs[w].created_at = jbs[u].created_at /\ w > u

\* Only the most recently created job of a miner.
latest_job(jbs, m) ==
    {u \in jobs_of(jbs, m) : \A w \in jobs_of(jbs, m) : ~newer(jbs, w, u)}

last_jobs(jbs, m) ==
    {u \in jobs_of(jbs, m) :
        Cardinality({w \in jobs_of(jbs, m) : newer(jbs, w, u)}) < LAST_JOBS_LIMIT}

\* miners which don't have active jobs
eligible_miners(mact, jbs, sts, t) ==
    {m \in Miners : mact[m] /\ \A u \in last_jobs(jbs, m) : is_completed(jbs[u], sts[u], t)}

\* A selection that looks for the preferred miners among all active miners,
\* eligible or not.
select_miner_preferred_first(user, mact, jbs, sts, t) ==
    LET miners == eligible_miners(mact, jbs, sts, t)
        preferred == IF HasPreferences(user) THEN PreferredMiners(user) ELSE {}
        available == {m \in preferred : mact[m]}
        narrowed == IF preferred # {} /\ (available # {} \/ Exclusive(user))
                    THEN available ELSE miners
        key(m) == IF last_jobs(jbs, m) = {} THEN NULL_TIME
                  ELSE Max({jbs[u].created_at : u \in last_jobs(jbs, m)})
    IN  IF narrowed = {} THEN {Outcome("Miner.DoesNotExist", NULL)}
        ELSE IF DEBUG_ADDRESS \in narrowed THEN {Outcome("ok", DEBUG_ADDRESS)}
        ELSE {Outcome("ok", m) :
                m \in {x \in narrowed : \A y \in narrowed : key(x) <= key(y)}}

select_miner(user, mact, jbs, sts, t) ==
    LET miners == eligible_miners(mact, jbs, sts, t)
        preferred == IF HasPreferences(user) THEN PreferredMiners(user) ELSE {}
        available == miners \cap preferred
        narrowed == IF preferred # {} /\ (available # {} \/ Exclusive(user))
                    THEN available ELSE miners
        key(m) == IF last_jobs(jbs, m) = {} THEN NULL_TIME
                  ELSE Max({jbs[u].created_at : u \in last_jobs(jbs, m)})
    IN  IF narrowed = {} THEN {Outcome("Miner.DoesNotExist", NULL)}
        ELSE IF DEBUG_ADDRESS \in narrowed THEN {Outcome("ok", DEBUG_ADDRESS)}
        ELSE {Outcome("ok", m) :
                m \in {x \in narrowed : \A y \in narrowed : key(x) <= key(y)}}

\* ------------------------------------------------------------------------
\* State
\* ------------------------------------------------------------------------
NoHandler == [uuid |-> 0, status |-> SENT, metadata |-> FALSE, address |-> NULL]

\* docker_image and raw_script are TRUE when the string is not empty.
NoJob == [uuid |-> 0, user |-> NULL, validator |-> NULL, miner |-> NULL,
          target_validator_hotkey |-> NULL, signature_info |-> FALSE,
          created_at |-> 0, output_upload_url |-> 0,
          output_download_url_expires_at |-> 0,
          docker_image |-> TRUE, raw_script |-> FALSE]

\* data is the validated data of the request being handled.
Idle == [pc |-> "idle", job |-> NoJob, names |-> {}, since |-> 0, next |-> 0,
         polls |-> 0, checks |-> 0, data |-> NULL]

NoResult == [kind |-> "none", job |-> NoJob, value |-> NULL]

Init ==
    /\ now = 0
    /\ ticks = 0
    /\ validator_active = [v \in Validators |-> TRUE]
    /\ miner_active = [m \in Miners |-> m # DEBUG_ADDRESS]
    /\ channels = <<>>
    /\ scope = [c \in ConnIds |-> NULL]
    /\ conn = [c \in ConnIds |-> [state |-> "open", code |-> NO_CODE]]
    /\ response = [c \in ConnIds |-> "none"]
    /\ handler = [c \in ConnIds |-> NoHandler]
    /\ layer = [c \in ConnIds |-> <<>>]
    /\ ws_out = [c \in ConnIds |-> <<>>]
    /\ jobs = <<>>
    /\ statuses = <<>>
    /\ worker = [p \in Workers |-> Idle]
    /\ locks = [m \in Miners |-> NULL]
    /\ result = [p \in Workers |-> NoResult]
    /\ version = 1
    /\ syncs = 0
    /\ machine_specs = {}
    /\ feedback = <<>>

clockVars == <<now, ticks>>
nodeVars == <<validator_active, miner_active, syncs>>
consumerVars == <<scope, conn, response, handler, ws_out>>
jobVars == <<jobs, statuses>>
workerVars == <<worker, locks, result>>

\* ------------------------------------------------------------------------
\* ValidatorConsumer
\* ------------------------------------------------------------------------
\* A consumer handles one message at a time, while its socket is open.
Receiving(c) == conn[c].state = "open" /\ handler[c] = NoHandler

Closed(code) == [state |-> "closed", code |-> code]

Crashed == [state |-> "crashed", code |-> NO_CODE]

\* A Channel row created with a heartbeat that is already out of the window.
connect_channel_without_heartbeat(chs, c, validator, t) ==
    [x \in DOMAIN chs \cup {c} |->
        IF x = c THEN [validator |-> validator, last_heartbeat |-> t - LIVENESS_WINDOW - 1]
        ELSE chs[x]]

\* A Channel row created for another validator than the one given.
connect_channel_to_other_validator(chs, c, validator, t) ==
    [x \in DOMAIN chs \cup {c} |->
        IF x = c THEN [validator |-> DEBUG_ADDRESS, last_heartbeat |-> t] ELSE chs[x]]

\* Channel.objects.acreate(validator=validator, name=self.channel_name);
\* last_heartbeat defaults to now.
connect_channel_to_validator(chs, c, validator, t) ==
    [x \in DOMAIN chs \cup {c} |->
        IF x = c THEN [validator |-> validator, last_heartbeat |-> t] ELSE chs[x]]

\* Every channel of the validator of this channel is removed.
disconnect_validator_from_channels(chs, c) ==
    [x \in {y \in DOMAIN chs : c \in DOMAIN chs => chs[y].validator # chs[c].validator} |->
        chs[x]]

\* Channel.objects.filter(name=self.channel_name).adelete()
disconnect_channel_from_validator(chs, c) ==
    [x \in DOMAIN chs \ {c} |-> chs[x]]

\* A consumer that takes every AuthRequest as its first.
never_authenticated(c) == FALSE

\* "ss58_address" in self.scope, as authenticate asks it.
already_authenticated(c) == scope[c] # NULL

\* The signature checked before the validator is looked up.
auth_error_signature_first(address, signature_ok) ==
    IF ~signature_ok THEN "auth.signature_invalid"
    ELSE IF ~(address \in Validators /\ validator_active[address])
    THEN "auth.validator_not_found"
    ELSE "none"

\* Validator.objects.filter(ss58_address=..., is_active=True).afirst(), then
\* message.verify_signature(): the error of a failed AuthRequest.
auth_error(address, signature_ok) ==
    IF ~(address \in Validators /\ validator_active[address])
    THEN "auth.validator_not_found"
    ELSE IF ~signature_ok THEN "auth.signature_invalid"
    ELSE "none"

close_code(error) ==
    IF error = "auth.validator_not_found" THEN NOT_FOUND ELSE INVALID_SIGNATURE

authenticate(c, address, signature_ok) ==
    /\ Receiving(c)
    /\ IF already_authenticated(c)
       THEN /\ response' = [response EXCEPT ![c] = "auth.already_authenticated"]
            /\ UNCHANGED <<scope, conn, channels>>
       ELSE IF auth_error(address, signature_ok) # "none"
       THEN /\ response' = [response EXCEPT ![c] = auth_error(address, signature_ok)]
            /\ conn' = [conn EXCEPT ![c] = Closed(close_code(auth_error(address, signature_ok)))]
            /\ UNCHANGED <<scope, channels>>
       ELSE IF c \in DOMAIN channels
       THEN \* unique_channel_name: the IntegrityError ends the consumer
            /\ scope' = [scope EXCEPT ![c] = address]
            /\ conn' = [conn EXCEPT ![c] = Crashed]
            /\ UNCHANGED <<response, channels>>
       ELSE /\ scope' = [scope EXCEPT ![c] = address]
            /\ channels' = connect_channel_to_validator(channels, c, address, now)
            /\ response' = [response EXCEPT ![c] = "success"]
            /\ UNCHANGED conn
    /\ UNCHANGED <<clockVars, nodeVars, handler, layer, ws_out, jobVars, workerVars, version, machine_specs, feedback>>

\* authenticate up to the validator lookup and the signature check: a
\* request that passes both waits for its Channel row to be created.
authenticate_lookup(c, address, signature_ok) ==
    IF already_authenticated(c) \/ auth_error(address, signature_ok) # "none"
    THEN authenticate(c, address, signature_ok)
    ELSE /\ Receiving(c)
         /\ handler' = [handler EXCEPT ![c] = [NoHandler EXCEPT !.address = address]]
         /\ UNCHANGED <<clockVars, nodeVars, channels, scope, conn, response, layer, ws_out,
                        jobVars, workerVars, version, machine_specs, feedback>>

\* The rest of authenticate: the scope is set, the Channel row created and
\* success sent, for the validator that the lookup found.
authenticate_register(c) ==
    /\ conn[c].state = "open"
    /\ handler[c].address # NULL
    /\ scope' = [scope EXCEPT ![c] = handler[c].address]
    /\ IF c \in DOMAIN channels
       THEN /\ conn' = [conn EXCEPT ![c] = Crashed]
            /\ UNCHANGED <<response, channels, handler>>
       ELSE /\ channels' = connect_channel_to_validator(channels, c, handler[c].address, now)
            /\ response' = [response EXCEPT ![c] = "success"]
            /\ handler' = [handler EXCEPT ![c] = NoHandler]
            /\ UNCHANGED conn
    /\ UNCHANGED <<clockVars, nodeVars, layer, ws_out, jobVars, workerVars, version,
                   machine_specs, feedback>>

\* A wrapper that lets every message through.
require_nothing(c) == TRUE

\* require_authentication: "ss58_address" in self.scope
require_authentication(c) == scope[c] # NULL

\* UUIDField.to_python: whether the string of message.uuid is a UUID.
is_valid_uuid(uuid) == uuid # MALFORMED_UUID

\* require_authentication, then Job.objects.aget(uuid=message.uuid)
job_status_update(c, uuid, value, metadata) ==
    /\ Receiving(c)
    /\ IF ~require_authentication(c)
       THEN /\ response' = [response EXCEPT ![c] = "auth.not_authenticated"]
            /\ UNCHANGED <<handler, conn>>
       ELSE IF ~is_valid_uuid(uuid)
       THEN \* the lookup raises django's ValidationError, which is not
            \* Job.DoesNotExist: the exception ends the consumer
            /\ conn' = [conn EXCEPT ![c] = Crashed]
            /\ UNCHANGED <<handler, response>>
       ELSE IF uuid \notin DOMAIN jobs
       THEN /\ response' = [response EXCEPT ![c] = "job.not_found"]
            /\ UNCHANGED <<handler, conn>>
       ELSE /\ handler' = [handler EXCEPT ![c] =
                              [uuid |-> uuid, status |-> value, metadata |-> metadata,
                               address |-> NULL]]
            /\ UNCHANGED <<response, conn>>
    /\ UNCHANGED <<clockVars, nodeVars, channels, scope, layer, ws_out, jobVars,
                   workerVars, version, machine_specs, feedback>>

\* JobStatusUpdate.status: the values the schema lets through.
status_literal == {"failed", "rejected", "accepted", "completed"}

\* JobStatus.Status[message.status.upper()]
Status(name) ==
    CASE name = "failed" -> FAILED
      [] name = "rejected" -> REJECTED
      [] name = "sent" -> SENT
      [] name = "accepted" -> ACCEPTED
      [] name = "completed" -> COMPLETED

\* receive: the text is parsed into one of the known messages, here a
\* V0JobStatusUpdate, and given to its handler; a text that does not parse
\* is answered with the errors of the validation.
receive(c, uuid, name, metadata) ==
    IF name \in status_literal
    THEN job_status_update(c, uuid, Status(name), metadata)
    ELSE /\ Receiving(c)
         /\ response' = [response EXCEPT ![c] = "literal_error"]
         /\ UNCHANGED <<clockVars, nodeVars, channels, scope, conn, handler, layer,
                        ws_out, jobVars, workerVars, version, machine_specs, feedback>>

\* JobStatus.objects.acreate(job=job, status=..., metadata=message.metadata.dict())
job_status_create(c) ==
    /\ conn[c].state = "open"
    /\ handler[c] # NoHandler
    /\ handler[c].address = NULL
    /\ LET h == handler[c] IN
       IF ~h.metadata
       THEN \* None has no dict(): the AttributeError ends the consumer inside
            \* the handler
            /\ conn' = [conn EXCEPT ![c] = Crashed]
            /\ UNCHANGED <<handler, response, statuses>>
       ELSE IF h.uuid \notin DOMAIN jobs \/ ~unique_job_status(statuses[h.uuid], h.status)
       THEN /\ response' = [response EXCEPT ![c] = "job.integrity_error"]
            /\ handler' = [handler EXCEPT ![c] = NoHandler]
            /\ UNCHANGED <<conn, statuses>>
       ELSE /\ statuses' = [statuses EXCEPT ![h.uuid] =
                              Append(@, [status |-> h.status, created_at |-> now])]
            /\ response' = [response EXCEPT ![c] = "success"]
            /\ handler' = [handler EXCEPT ![c] = NoHandler]
            /\ UNCHANGED conn
    /\ UNCHANGED <<clockVars, nodeVars, channels, scope, layer, ws_out, jobs,
                   workerVars, version, machine_specs, feedback>>

\* save_machine_specs(message): the specs sent by the validator are stored.
save_machine_specs(specs, validator) == specs \cup {validator}

machine_specs_update(c) ==
    /\ Receiving(c)
    /\ IF ~require_authentication(c)
       THEN /\ response' = [response EXCEPT ![c] = "auth.not_authenticated"]
            /\ UNCHANGED machine_specs
       ELSE /\ machine_specs' = save_machine_specs(machine_specs, scope[c])
            /\ UNCHANGED response
    /\ UNCHANGED <<clockVars, nodeVars, channels, scope, conn, handler, layer, ws_out,
                   jobVars, workerVars, version, feedback>>

heartbeat(c) ==
    /\ Receiving(c)
    /\ IF ~require_authentication(c)
       THEN /\ response' = [response EXCEPT ![c] = "auth.not_authenticated"]
            /\ UNCHANGED channels
       ELSE /\ channels' = [x \in DOMAIN channels |->
                              IF x = c THEN [channels[x] EXCEPT !.last_heartbeat = now]
                              ELSE channels[x]]
            /\ UNCHANGED response
    /\ UNCHANGED <<clockVars, nodeVars, scope, conn, handler, layer, ws_out, jobVars,
                   workerVars, version, machine_specs, feedback>>

\* The transport closes: ValidatorConsumer.disconnect
disconnect(c) ==
    /\ Receiving(c)
    /\ conn' = [conn EXCEPT ![c] = Closed(NO_CODE)]
    /\ channels' = IF scope[c] # NULL THEN disconnect_channel_from_validator(channels, c)
                   ELSE channels
    /\ UNCHANGED <<clockVars, nodeVars, scope, response, handler, layer, ws_out, jobVars,
                   workerVars, version, machine_specs, feedback>>

\* The consumer takes the next channel-layer message: job_new forwards a job
\* payload to the validator, validator_disconnect closes the socket.
job_new(c) ==
    /\ Receiving(c)
    /\ layer[c] # <<>>
    /\ Head(layer[c]).type = "job.new"
    /\ layer' = [layer EXCEPT ![c] = Tail(@)]
    /\ ws_out' = [ws_out EXCEPT ![c] = Append(@, Head(layer[c]).uuid)]
    /\ UNCHANGED <<clockVars, nodeVars, channels, scope, conn, response, handler, jobVars,
                   workerVars, version, machine_specs, feedback>>

validator_disconnect(c) ==
    /\ Receiving(c)
    /\ layer[c] # <<>>
    /\ Head(layer[c]).type = "validator.disconnect"
    /\ layer' = [layer EXCEPT ![c] = Tail(@)]
    /\ conn' = [conn EXCEPT ![c] = Closed(NOT_FOUND)]
    /\ channels' = IF scope[c] # NULL THEN disconnect_channel_from_validator(channels, c)
                   ELSE channels
    /\ UNCHANGED <<clockVars, nodeVars, scope, response, handler, ws_out, jobVars,
                   workerVars, version, machine_specs, feedback>>

\* ------------------------------------------------------------------------
\* Job.save
\* ------------------------------------------------------------------------
Message(type, uuid) == [type |-> type, uuid |-> uuid]

\* uuid4(): an identifier no job row, transaction or payload carries yet.
used_uuids ==
    DOMAIN jobs
        \cup {worker[p].job.uuid : p \in {q \in Workers : worker[q].pc # "idle"}}
        \cup UNION {{layer[c][i].uuid :
                        i \in {j \in 1..Len(layer[c]) : layer[c][j].type = "job.new"}} :
                    c \in ConnIds}
        \cup UNION {Range(ws_out[c]) : c \in ConnIds}

uuid4 == CHOOSE u \in Uuids \ used_uuids : \A w \in Uuids \ used_uuids : u <= w

is_download_url_expired(job, t) ==
    job.output_download_url_expires_at = 0 \/ t > job.output_download_url_expires_at

reset_download_url(job, t) ==
    [job EXCEPT !.output_download_url_expires_at = t + DOWNLOAD_PRESIGNED_URL_LIFETIME]

\* The rows a transaction sees of its own job: None, or the payload version.
as_job_request(job, ver) ==
    IF ver = 0
    THEN IF job.miner = NULL THEN "AttributeError" ELSE "V0JobRequest"
    ELSE IF job.signature_info
         THEN IF job.miner = NULL THEN "V2JobRequest" ELSE "AssertionError"
         ELSE IF job.miner # NULL THEN "V1JobRequest" ELSE "AssertionError"

\* Only the channels of the validator with a heartbeat inside the window.
channels_names_connected(chs, validator) ==
    {c \in DOMAIN chs : chs[c].validator = validator
                         /\ chs[c].last_heartbeat >= now - LIVENESS_WINDOW}

\* Channel.objects.filter(validator=self.validator).values_list("name")
channels_names(chs, validator) == {c \in DOMAIN chs : chs[c].validator = validator}

\* What Job.save raised, with the unsaved instance it was called on.
Failure(kind, job) == [kind |-> kind, job |-> job, value |-> NULL]

\* Job.clean: whether it raises MutuallyExclusiveFieldsError.
clean_raises(job) == (~job.docker_image) = (~job.raw_script)

\* A table without the constraint.
no_check_constraint(job) == TRUE

\* CheckConstraint docker_image_or_raw_script, as the INSERT evaluates it.
docker_image_or_raw_script(job) ==
    \/ ~job.docker_image /\ job.raw_script
    \/ job.docker_image /\ ~job.raw_script

\* save() of a new instance, up to and including select_validator.
save_instance(p, instance) ==
    /\ worker[p].pc = "idle"
    /\ Uuids \ used_uuids # {}
    /\ LET job == reset_download_url(
                    [instance EXCEPT !.uuid = uuid4, !.created_at = now,
                                     !.output_upload_url = uuid4], now)
       IN  \E o \in select_validator(job.user, job.target_validator_hotkey,
                                     job.signature_info, channels, jobs, now) :
             IF o.kind = "ok"
             THEN /\ worker' = [worker EXCEPT ![p] =
                       [Idle EXCEPT !.pc = "select_miner",
                                    !.job = [job EXCEPT !.validator = o.node]]]
                  /\ result' = [result EXCEPT ![p] = NoResult]
             ELSE /\ result' = [result EXCEPT ![p] = Failure(o.kind, job)]
                  /\ UNCHANGED worker
    /\ UNCHANGED <<clockVars, nodeVars, channels, consumerVars, layer, jobVars, locks, version, machine_specs, feedback>>

\* A new job with a docker image: save() up to and including select_validator.
save_select_validator(p, user, target, signed) ==
    save_instance(p, [NoJob EXCEPT !.user = user, !.target_validator_hotkey = target,
                                   !.signature_info = signed])

\* BaseCreateJobViewSet.perform_create: serializer.save(user=...) saves the
\* instance made of the request's fields; the model's clean is not called.
perform_create(p, user, docker_image, raw_script) ==
    save_instance(p, [NoJob EXCEPT !.user = user, !.docker_image = docker_image,
                                   !.raw_script = raw_script])

\* DockerImageJobCreateView and RawScriptJobCreateView: the form is validated,
\* which calls Job.clean on the instance, and form_valid saves the instance.
form_valid(p, user, docker_image, raw_script) ==
    LET instance == [NoJob EXCEPT !.user = user, !.docker_image = docker_image,
                                  !.raw_script = raw_script]
    IN  IF clean_raises(instance)
        THEN /\ worker[p].pc = "idle"
             /\ result' = [result EXCEPT ![p] =
                             Failure("MutuallyExclusiveFieldsError", instance)]
             /\ UNCHANGED <<clockVars, nodeVars, channels, consumerVars, layer, jobVars,
                            worker, locks, version, machine_specs, feedback>>
        ELSE save_instance(p, instance)

\* JobFeedbackViewSet.perform_create up to the existence test: the request
\* must be signed, the job must be one of the user's, and a feedback row of
\* the job is a Conflict.
feedback_check(p, user, job_uuid, signed, result_correctness) ==
    LET request == [NoJob EXCEPT !.uuid = job_uuid, !.user = user]
        fail(kind) ==
            /\ result' = [result EXCEPT ![p] = Failure(kind, request)]
            /\ UNCHANGED worker
    IN  /\ worker[p].pc = "idle"
        /\ IF ~signed THEN fail("SignatureNotFound")
           ELSE IF ~(job_uuid \in DOMAIN jobs /\ jobs[job_uuid].user = user)
                THEN fail("Http404")
           ELSE IF job_uuid \in DOMAIN feedback /\ feedback[job_uuid].user = user
                THEN fail("Conflict")
           ELSE /\ worker' = [worker EXCEPT ![p] =
                                [Idle EXCEPT !.pc = "feedback_save",
                                             !.job = jobs[job_uuid],
                                             !.data = result_correctness]]
                /\ UNCHANGED result
        /\ UNCHANGED <<clockVars, nodeVars, channels, consumerVars, layer, jobVars,
                       locks, version, machine_specs, feedback>>

\* serializer.save: the INSERT of the row. JobFeedback.job is a
\* OneToOneField, so a second row of a job violates its unique index.
feedback_save(p) ==
    LET job == worker[p].job
    IN  /\ worker[p].pc = "feedback_save"
        /\ worker' = [worker EXCEPT ![p] = Idle]
        /\ IF job.uuid \in DOMAIN feedback
           THEN /\ result' = [result EXCEPT ![p] = Failure("IntegrityError", job)]
                /\ UNCHANGED feedback
           ELSE /\ feedback' = feedback @@
                       (job.uuid :> [user |-> job.user, created_at |-> now,
                                     result_correctness |-> worker[p].data])
                /\ result' = [result EXCEPT ![p] =
                                [kind |-> "ok", job |-> job, value |-> worker[p].data]]
        /\ UNCHANGED <<clockVars, nodeVars, channels, consumerVars, layer, jobVars,
                       locks, version, machine_specs>>

\* What a read returned: the job or jobs as serialized, and the time of the
\* response.
Returned(kind, job, t) == [kind |-> kind, job |-> job, value |-> t]

\* The detail page of a job: JobDetailView.get_object saves the job again,
\* which resets its download URL, when the URL is expired, and returns it.
detail_get_object(p, u) ==
    LET job == IF is_download_url_expired(jobs[u], now)
               THEN reset_download_url(jobs[u], now)
               ELSE jobs[u]
    IN  /\ u \in DOMAIN jobs
        /\ worker[p].pc = "idle"
        /\ jobs' = [jobs EXCEPT ![u] = job]
        /\ result' = [result EXCEPT ![p] = Returned("detail", job, now)]
        /\ UNCHANGED <<clockVars, nodeVars, channels, consumerVars, layer, statuses,
                       worker, locks, version, machine_specs, feedback>>

\* JobViewSet.retrieve: the job of the user with this uuid, as it is stored.
retrieve(p, user, u) ==
    /\ worker[p].pc = "idle"
    /\ result' = [result EXCEPT ![p] =
                    IF u \in DOMAIN jobs /\ jobs[u].user = user
                    THEN Returned("retrieve", jobs[u], now)
                    ELSE Failure("Http404", [NoJob EXCEPT !.uuid = u, !.user = user])]
    /\ UNCHANGED <<clockVars, nodeVars, channels, consumerVars, layer, jobVars,
                   worker, locks, version, machine_specs, feedback>>

\* JobViewSet.list: the jobs of the user, as they are stored.
list(p, user) ==
    /\ worker[p].pc = "idle"
    /\ result' = [result EXCEPT ![p] =
                    Returned("list", [NoJob EXCEPT !.user = user],
                             [at |-> now,
                              results |-> {jobs[u] : u \in {x \in DOMAIN jobs :
                                                              jobs[x].user = user}}])]
    /\ UNCHANGED <<clockVars, nodeVars, channels, consumerVars, layer, jobVars,
                   worker, locks, version, machine_specs, feedback>>

\* filter(created_at__lte=cutoff): the rows created at the cutoff or before.
created_at__lte(jbs, cutoff) == {u \in DOMAIN jbs : jbs[u].created_at <= cutoff}

\* filter(created_at__lt=cutoff): the rows created before the cutoff.
created_at__lt(jbs, cutoff) == {u \in DOMAIN jbs : jbs[u].created_at < cutoff}

\* evict_jobs: the jobs created before now - JOBS_RETENTION_PERIOD are
\* deleted, and with them, by on_delete=CASCADE, their JobStatus rows and
\* their JobFeedback row.
evict_jobs ==
    LET cutoff == now - JOBS_RETENTION_PERIOD
        kept == DOMAIN jobs \ created_at__lt(jobs, cutoff)
    IN  /\ jobs' = [u \in kept |-> jobs[u]]
        /\ statuses' = [u \in DOMAIN statuses \cap kept |-> statuses[u]]
        /\ feedback' = [u \in DOMAIN feedback \cap kept |-> feedback[u]]
        /\ UNCHANGED <<clockVars, nodeVars, channels, consumerVars, layer,
                       workerVars, version, machine_specs>>

\* A SELECT that takes no row locks never waits.
can_read(p) == TRUE

\* Miner.objects.select_for_update().filter(is_active=True) waits while
\* another transaction holds one of these rows.
can_lock(p) == \A m \in Miners : miner_active[m] => locks[m] \in {NULL, p}

release(p) == [m \in Miners |-> IF locks[m] = p THEN NULL ELSE locks[m]]

\* select_miner (or miner = None for a targeted job), then the INSERT of the job.
save_select_miner(p) ==
    /\ worker[p].pc = "select_miner"
    /\ LET job == worker[p].job IN
       IF job.target_validator_hotkey # NULL
       THEN IF docker_image_or_raw_script(job)
            THEN /\ worker' = [worker EXCEPT ![p].pc = "send_to_validator"]
                 /\ UNCHANGED <<locks, result>>
            ELSE /\ worker' = [worker EXCEPT ![p] = Idle]
                 /\ result' = [result EXCEPT ![p] = Failure("IntegrityError", job)]
                 /\ UNCHANGED locks
       ELSE /\ can_lock(p)
            /\ \E o \in select_miner(job.user, miner_active, jobs, statuses, now) :
                 IF o.kind # "ok"
                 THEN /\ worker' = [worker EXCEPT ![p] = Idle]
                      /\ result' = [result EXCEPT ![p] = Failure(o.kind, job)]
                      /\ UNCHANGED locks
                 ELSE IF docker_image_or_raw_script(job)
                 THEN /\ worker' = [worker EXCEPT ![p] =
                           [Idle EXCEPT !.pc = "send_to_validator",
                                        !.job = [job EXCEPT !.miner = o.node]]]
                      /\ locks' = [m \in Miners |-> IF miner_active[m] THEN p ELSE locks[m]]
                      /\ UNCHANGED result
                 ELSE \* the INSERT violates the constraint: the transaction is
                      \* rolled back and the row locks are released with it
                      /\ worker' = [worker EXCEPT ![p] = Idle]
                      /\ result' = [result EXCEPT ![p] = Failure("IntegrityError", job)]
                      /\ UNCHANGED locks
    /\ UNCHANGED <<clockVars, nodeVars, channels, consumerVars, layer, jobVars, version, machine_specs, feedback>>

\* send_to_validator up to the pushes: the payload goes to every channel of
\* the validator; an exception of as_job_request rolls the transaction back.
send_to_validator(p) ==
    /\ worker[p].pc = "send_to_validator"
    /\ LET job == worker[p].job
           request == as_job_request(job, version)
           names == channels_names(channels, job.validator)
       IN  IF request \in {"AttributeError", "AssertionError"}
           THEN /\ worker' = [worker EXCEPT ![p] = Idle]
                /\ locks' = release(p)
                /\ result' = [result EXCEPT ![p] = Failure(request, job)]
                /\ UNCHANGED layer
           ELSE /\ layer' = [c \in ConnIds |->
                               IF c \in names THEN Append(layer[c], Message("job.new", job.uuid))
                               ELSE layer[c]]
                /\ worker' = [worker EXCEPT ![p].pc = "create_status", ![p].names = names]
                /\ UNCHANGED <<locks, result>>
    /\ UNCHANGED <<clockVars, nodeVars, channels, consumerVars, jobVars, version, machine_specs, feedback>>

\* A commit of the job row without a status row.
save_commit_without_status(p) ==
    /\ worker[p].pc = "create_status"
    /\ LET job == worker[p].job IN
       /\ jobs' = [u \in DOMAIN jobs \cup {job.uuid} |-> IF u = job.uuid THEN job ELSE jobs[u]]
       /\ statuses' = [u \in DOMAIN jobs \cup {job.uuid} |->
                         IF u = job.uuid THEN <<>> ELSE statuses[u]]
       /\ result' = [result EXCEPT ![p] = [kind |-> "ok", job |-> job, value |-> NULL]]
    /\ worker' = [worker EXCEPT ![p] = Idle]
    /\ locks' = release(p)
    /\ UNCHANGED <<clockVars, nodeVars, channels, consumerVars, layer, version, machine_specs, feedback>>

\* JobStatus.objects.create(job=self, status=SENT), and the commit.
save_commit(p) ==
    /\ worker[p].pc = "create_status"
    /\ LET job == worker[p].job IN
       /\ jobs' = [u \in DOMAIN jobs \cup {job.uuid} |-> IF u = job.uuid THEN job ELSE jobs[u]]
       /\ statuses' = [u \in DOMAIN jobs \cup {job.uuid} |->
                         IF u = job.uuid THEN <<[status |-> SENT, created_at |-> now]>>
                         ELSE statuses[u]]
       /\ result' = [result EXCEPT ![p] = [kind |-> "ok", job |-> job, value |-> NULL]]
    /\ worker' = [worker EXCEPT ![p] = Idle]
    /\ locks' = release(p)
    /\ UNCHANGED <<clockVars, nodeVars, channels, consumerVars, layer, version, machine_specs, feedback>>

\* send_to_validator when channel_layer.send raises (a full channel, a lost
\* connection to the channel layer): the payload was pushed to the channels
\* that came before in the loop, and the exception rolls the transaction
\* back.
send_to_validator_failing(p) ==
    /\ worker[p].pc = "send_to_validator"
    /\ LET job == worker[p].job
           request == as_job_request(job, version)
           names == channels_names(channels, job.validator)
       IN  /\ request \notin {"AttributeError", "AssertionError"}
           /\ \E sent \in SUBSET names :
                /\ sent # names
                /\ layer' = [c \in ConnIds |->
                               IF c \in sent THEN Append(layer[c], Message("job.new", job.uuid))
                               ELSE layer[c]]
           /\ worker' = [worker EXCEPT ![p] = Idle]
           /\ locks' = release(p)
           /\ result' = [result EXCEPT ![p] = Failure("ChannelLayerError", job)]
    /\ UNCHANGED <<clockVars, nodeVars, channels, consumerVars, jobVars, version, machine_specs, feedback>>

\* The INSERT of the SENT row or the commit fails in the database: the
\* transaction is rolled back.
save_commit_failing(p) ==
    /\ worker[p].pc = "create_status"
    /\ worker' = [worker EXCEPT ![p] = Idle]
    /\ locks' = release(p)
    /\ result' = [result EXCEPT ![p] = Failure("DatabaseError", worker[p].job)]
    /\ UNCHANGED <<clockVars, nodeVars, channels, consumerVars, layer, jobVars, version, machine_specs, feedback>>

\* A re-save that sends the job to its validator again.
get_object_resend(u) ==
    /\ u \in DOMAIN jobs
    /\ is_download_url_expired(jobs[u], now)
    /\ jobs' = [jobs EXCEPT ![u] = reset_download_url(jobs[u], now)]
    /\ layer' = [c \in ConnIds |->
                   IF c \in channels_names(channels, jobs[u].validator)
                   THEN Append(layer[c], Message("job.new", u))
                   ELSE layer[c]]
    /\ UNCHANGED <<clockVars, nodeVars, channels, consumerVars, statuses,
                   workerVars, version, machine_specs, feedback>>

\* JobDetailView.get_object: a job whose download URL expired is saved again.
get_object(u) ==
    /\ u \in DOMAIN jobs
    /\ is_download_url_expired(jobs[u], now)
    /\ jobs' = [jobs EXCEPT ![u] = reset_download_url(jobs[u], now)]
    /\ UNCHANGED <<clockVars, nodeVars, channels, consumerVars, layer, statuses,
                   workerVars, version, machine_specs, feedback>>

\* Job.wait_completed is called on a saved job: tenacity notes the start time.
wait_start(p, u) ==
    /\ worker[p].pc = "idle"
    /\ u \in DOMAIN jobs
    /\ worker' = [worker EXCEPT ![p] =
                     [Idle EXCEPT !.pc = "wait_completed", !.job = jobs[u],
                                  !.since = now, !.next = now]]
    /\ result' = [result EXCEPT ![p] = NoResult]
    /\ UNCHANGED <<clockVars, nodeVars, channels, consumerVars, layer, jobVars, locks, version, machine_specs, feedback>>

\* An attempt that does not call the hook.
on_check_skipped(w, job) == w

\* on_check(job): the caller's hook is given the job that was just fetched.
on_check(w, job) == [w EXCEPT !.job = job, !.checks = @ + 1]

\* One attempt of wait_completed: the job is fetched again, handed to
\* on_check, and its status returned when it is completed; otherwise tenacity
\* raises JobNotFinishedError once JOB_TIMEOUT has passed since the start,
\* and else sleeps 3 seconds before the next attempt.
wait_completed(p) ==
    /\ worker[p].pc = "wait_completed"
    /\ now >= worker[p].next
    /\ LET u == worker[p].job.uuid
           job == jobs[u]
           w == on_check([worker[p] EXCEPT !.polls = @ + 1], job)
           done == [Idle EXCEPT !.polls = w.polls, !.checks = w.checks]
       IN  IF is_completed(job, statuses[u], now)
           THEN /\ result' = [result EXCEPT ![p] =
                      [kind |-> "returned", job |-> job, value |-> status(statuses[u]).status]]
                /\ worker' = [worker EXCEPT ![p] = done]
           ELSE IF now - worker[p].since >= JOB_TIMEOUT
           THEN /\ result' = [result EXCEPT ![p] = Failure("JobNotFinishedError", job)]
                /\ worker' = [worker EXCEPT ![p] = done]
           ELSE /\ worker' = [worker EXCEPT ![p] = [w EXCEPT !.next = now + WAIT_FIXED]]
                /\ UNCHANGED result
    /\ UNCHANGED <<clockVars, nodeVars, channels, consumerVars, layer, jobVars, locks, version, machine_specs, feedback>>

\* time.sleep(3) between two attempts: the clock reaches the next attempt.
wait_sleep(p) ==
    /\ worker[p].pc = "wait_completed"
    /\ now < worker[p].next
    /\ now' = worker[p].next
    /\ UNCHANGED <<ticks, nodeVars, channels, consumerVars, layer, jobVars, workerVars,
                   version, machine_specs, feedback>>

\* ------------------------------------------------------------------------
\* Environment: the clock and the metagraph sync
\* ------------------------------------------------------------------------
Tick(d, bound) ==
    /\ ticks < bound
    /\ now' = now + d
    /\ ticks' = ticks + 1
    /\ UNCHANGED <<nodeVars, channels, consumerVars, layer, jobVars, workerVars, version, machine_specs, feedback>>

\* sync_metagraph: a validator that left the metagraph becomes inactive and
\* a ForceDisconnect is sent to each of its channels; a miner likewise
\* becomes inactive.
sync_metagraph(node) ==
    /\ syncs < MaxSyncs
    /\ syncs' = syncs + 1
    /\ IF node \in Validators
       THEN /\ validator_active' = [validator_active EXCEPT ![node] = FALSE]
            /\ layer' = [c \in ConnIds |->
                           IF c \in channels_names(channels, node)
                           THEN Append(layer[c], Message("validator.disconnect", 0))
                           ELSE layer[c]]
            /\ UNCHANGED miner_active
       ELSE /\ miner_active' = [miner_active EXCEPT ![node] = FALSE]
            /\ UNCHANGED <<validator_active, layer>>
    /\ UNCHANGED <<clockVars, channels, consumerVars, jobVars, workerVars, version, machine_specs, feedback>>

\* ------------------------------------------------------------------------
\* Operations with their inputs drawn from sets
\* ------------------------------------------------------------------------
Statuses == {FAILED, REJECTED, ACCEPTED, COMPLETED}

Authenticate(A, S) == \E c \in ConnIds, a \in A, ok \in S : authenticate(c, a, ok)

AuthenticateLookup(A, S) ==
    \E c \in ConnIds, a \in A, ok \in S : authenticate_lookup(c, a, ok)

AuthenticateRegister == \E c \in ConnIds : authenticate_register(c)

\* A report names a job that exists or one that does not (uuid 0).
JobStatusUpdate(V, M) ==
    \E c \in ConnIds, u \in DOMAIN jobs \cup {0}, v \in V, m \in M :
        job_status_update(c, u, v, m)

\* A report that names one of the given uuids.
JobStatusUpdateOf(U, V, M) ==
    \E c \in ConnIds, u \in U, v \in V, m \in M : job_status_update(c, u, v, m)

\* The validator reports on a job whose payload it received on this
\* connection.
ReceiveReply(S, M) ==
    \E c \in ConnIds, name \in S, m \in M :
        \E u \in Range(ws_out[c]) : receive(c, u, name, m)

JobStatusCreate == \E c \in ConnIds : job_status_create(c)

MachineSpecsUpdate == \E c \in ConnIds : machine_specs_update(c)

Heartbeat == \E c \in ConnIds : heartbeat(c)

Disconnect == \E c \in ConnIds : disconnect(c)

JobNew == \E c \in ConnIds : job_new(c)

ValidatorDisconnect == \E c \in ConnIds : validator_disconnect(c)

SaveSelectValidator(W, U, T, S, bound) ==
    \E p \in W, u \in U, t \in T, s \in S :
        /\ Cardinality(used_uuids) < bound
        /\ save_select_validator(p, u, t, s)

\* A worker that has not saved a job yet saves one.
SaveOnce(W, U, T, S) ==
    \E p \in W, u \in U, t \in T, s \in S :
        /\ result[p] = NoResult
        /\ save_select_validator(p, u, t, s)

\* A worker that has not handled a creation yet handles one.
PerformCreate(W, U, D, R) ==
    \E p \in W, u \in U, d \in D, r \in R :
        /\ result[p] = NoResult
        /\ perform_create(p, u, d, r)

FormValid(W, U, D, R) ==
    \E p \in W, u \in U, d \in D, r \in R :
        /\ result[p] = NoResult
        /\ form_valid(p, u, d, r)

\* A worker that has not handled a request yet handles a feedback
\* submission.
FeedbackCheck(W, U, J, S, R) ==
    \E p \in W, u \in U, j \in J, signed \in S, r \in R :
        /\ result[p] = NoResult
        /\ feedback_check(p, u, j, signed, r)

FeedbackSave(W) == \E p \in W : feedback_save(p)

DetailGetObject(W) == \E p \in W, u \in DOMAIN jobs : detail_get_object(p, u)

Retrieve(W, U, J) == \E p \in W, user \in U, u \in J : retrieve(p, user, u)

List(W, U) == \E p \in W, user \in U : list(p, user)

SaveSelectMiner(W) == \E p \in W : save_select_miner(p)

SendToValidator(W) == \E p \in W : send_to_validator(p)

SaveCommit(W) == \E p \in W : save_commit(p)

SendToValidatorFailing(W) == \E p \in W : send_to_validator_failing(p)

SaveCommitFailing(W) == \E p \in W : save_commit_failing(p)

GetObject == \E u \in DOMAIN jobs : get_object(u)

WaitStart(W) == \E p \in W, u \in DOMAIN jobs : wait_start(p, u)

\* A caller that has not waited yet waits for a job.
WaitOnce(W) ==
    \E p \in W, u \in DOMAIN jobs :
        /\ result[p] = NoResult
        /\ wait_start(p, u)

WaitCompleted(W) == \E p \in W : wait_completed(p)

WaitSleep(W) == \E p \in W : wait_sleep(p)

Advance(D, bound) == \E d \in D : Tick(d, bound)

SyncMetagraph(N) == \E n \in N : sync_metagraph(n)

\* ------------------------------------------------------------------------
\* Spec: registry and dispatch. Two consumers authenticate as vA or vB,
\* send heartbeats and close; one worker saves a job for alice, with and
\* without a target and a signature; vA may leave the metagraph; the clock
\* may pass the liveness window.
\* ------------------------------------------------------------------------
Next ==
    \/ Authenticate({"vA", "vB"}, {TRUE})
    \/ Heartbeat
    \/ Disconnect
    \/ JobNew
    \/ ValidatorDisconnect
    \/ SaveOnce({"w1"}, {"alice"}, {NULL, "vA", "vX"}, BOOLEAN)
    \/ SaveSelectMiner({"w1"})
    \/ SendToValidator({"w1"})
    \/ SaveCommit({"w1"})
    \/ Advance({LIVENESS_WINDOW, LIVENESS_WINDOW + 1}, DispatchTicks)
    \/ SyncMetagraph({"vA"})

Spec == Init /\ [][Next]_vars

\* ------------------------------------------------------------------------
\* SpecSelect: validator selection over every registry. Each consumer is
\* unregistered or registered to any validator with a heartbeat that is
\* new, exactly at the end of the liveness window, or one second past it;
\* two earlier jobs went to any two validators, 10 and 5 minutes ago; one
\* worker creates an untargeted job for alice, bob or carol.
\* ------------------------------------------------------------------------
SelectNow == 600
HeartbeatAges == {0, LIVENESS_WINDOW, LIVENESS_WINDOW + 1}

\* A committed job row and its history as Job.save leaves them.
SavedJob(uuid, user, validator, miner, t) ==
    reset_download_url(
        [NoJob EXCEPT !.uuid = uuid, !.user = user, !.validator = validator,
                      !.miner = miner, !.created_at = t, !.output_upload_url = uuid], t)

SentAt(t) == <<[status |-> SENT, created_at |-> t]>>

SelectInit ==
    /\ now = SelectNow
    /\ ticks = 0
    /\ validator_active = [v \in Validators |-> TRUE]
    /\ miner_active = [m \in Miners |-> m # DEBUG_ADDRESS]
    /\ \E reg \in [ConnIds -> Validators \cup {NULL}], age \in [ConnIds -> HeartbeatAges] :
         /\ scope = reg
         /\ channels = [c \in {x \in ConnIds : reg[x] # NULL} |->
                          [validator |-> reg[c], last_heartbeat |-> now - age[c]]]
    /\ conn = [c \in ConnIds |-> [state |-> "open", code |-> NO_CODE]]
    /\ response = [c \in ConnIds |-> IF scope[c] = NULL THEN "none" ELSE "success"]
    /\ handler = [c \in ConnIds |-> NoHandler]
    /\ layer = [c \in ConnIds |-> <<>>]
    /\ ws_out = [c \in ConnIds |-> <<>>]
    /\ \E v1 \in Validators, v2 \in Validators :
         jobs = <<SavedJob(1, "alice", v1, "mA", 0), SavedJob(2, "alice", v2, "mB", 300)>>
    /\ statuses = <<SentAt(0), SentAt(300)>>
    /\ worker = [p \in Workers |-> Idle]
    /\ locks = [m \in Miners |-> NULL]
    /\ result = [p \in Workers |-> NoResult]
    /\ version = 1
    /\ syncs = 0
    /\ machine_specs = {}
    /\ feedback = <<>>

SelectNext ==
    \/ SaveSelectValidator({"w1"}, Users, {NULL}, {FALSE}, SelectJobs)
    \/ SaveSelectMiner({"w1"})
    \/ SendToValidator({"w1"})
    \/ SaveCommit({"w1"})
    \/ JobNew

SpecSelect == SelectInit /\ [][SelectNext]_vars

\* ------------------------------------------------------------------------
\* SpecStatus: status reports. Consumer c1 is authenticated as vA, c2 as
\* vB or not at all; job 1 was dispatched to vA. Both consumers report
\* accepted, completed or failed for job 1 or for an unknown job, with or
\* without metadata; a report is suspended between its two queries, so two
\* reports overlap.
\* ------------------------------------------------------------------------
StatusTicks == 1

StatusInit ==
    /\ now = 0
    /\ ticks = 0
    /\ validator_active = [v \in Validators |-> TRUE]
    /\ miner_active = [m \in Miners |-> m # DEBUG_ADDRESS]
    /\ \E second \in {NULL, "vB"} :
         /\ scope = [c \in ConnIds |-> IF c = "c1" THEN "vA" ELSE second]
         /\ channels = [c \in {x \in ConnIds : scope[x] # NULL} |->
                          [validator |-> scope[c], last_heartbeat |-> now]]
    /\ conn = [c \in ConnIds |-> [state |-> "open", code |-> NO_CODE]]
    /\ response = [c \in ConnIds |-> IF scope[c] = NULL THEN "none" ELSE "success"]
    /\ handler = [c \in ConnIds |-> NoHandler]
    /\ layer = [c \in ConnIds |-> <<>>]
    /\ ws_out = [c \in ConnIds |-> IF c = "c1" THEN <<1>> ELSE <<>>]
    /\ jobs = <<SavedJob(1, "alice", "vA", "mA", 0)>>
    /\ statuses = <<SentAt(0)>>
    /\ worker = [p \in Workers |-> Idle]
    /\ locks = [m \in Miners |-> NULL]
    /\ result = [p \in Workers |-> NoResult]
    /\ version = 1
    /\ syncs = 0
    /\ machine_specs = {}
    /\ feedback = <<>>

StatusNext ==
    \/ JobStatusUpdate({FAILED, ACCEPTED, COMPLETED}, BOOLEAN)
    \/ JobStatusCreate
    \/ Advance({1}, StatusTicks)

SpecStatus == StatusInit /\ [][StatusNext]_vars

\* ------------------------------------------------------------------------
\* SpecLife: the life of a dispatched job. Job 1 was created at time 0 for
\* vA, whose consumer c1 still holds the payload in its channel-layer queue.
\* The other connection closed without authenticating.
\* The validator reports accepted and completed, the detail view re-saves
\* the job when its download URL expired, a caller waits for completion,
\* and the clock moves by 1 or 330 seconds.
\* ------------------------------------------------------------------------
LifeTicks == 2
ConcTicks == 1

LifeInit ==
    /\ now = 0
    /\ ticks = 0
    /\ validator_active = [v \in Validators |-> TRUE]
    /\ miner_active = [m \in Miners |-> m # DEBUG_ADDRESS]
    /\ scope = [c \in ConnIds |-> IF c = "c1" THEN "vA" ELSE NULL]
    /\ channels = [c \in {"c1"} |-> [validator |-> "vA", last_heartbeat |-> now]]
    /\ conn = [c \in ConnIds |-> IF c = "c1" THEN [state |-> "open", code |-> NO_CODE]
                                  ELSE Closed(NO_CODE)]
    /\ response = [c \in ConnIds |-> IF scope[c] = NULL THEN "none" ELSE "success"]
    /\ handler = [c \in ConnIds |-> NoHandler]
    /\ layer = [c \in ConnIds |-> IF c = "c1" THEN <<Message("job.new", 1)>> ELSE <<>>]
    /\ ws_out = [c \in ConnIds |-> <<>>]
    /\ jobs = <<SavedJob(1, "alice", "vA", "mA", 0)>>
    /\ statuses = <<SentAt(0)>>
    /\ worker = [p \in Workers |-> Idle]
    /\ locks = [m \in Miners |-> NULL]
    /\ result = [p \in Workers |-> NoResult]
    /\ version = 1
    /\ syncs = 0
    /\ machine_specs = {}
    /\ feedback = <<>>

LifeNext ==
    \/ JobNew
    \/ JobStatusUpdate({ACCEPTED, COMPLETED}, {TRUE})
    \/ JobStatusCreate
    \/ GetObject
    \/ WaitStart({"w1"})
    \/ WaitCompleted({"w1"})
    \/ Advance({1, JOB_TIMEOUT}, LifeTicks)

SpecLife == LifeInit /\ [][LifeNext]_vars

\* ------------------------------------------------------------------------
\* SpecMiner: miner selection over job histories. Miner mA has 0, 1, 2 or
\* 11 earlier jobs and mB 0, 1 or 2, created 10 seconds apart, the oldest
\* 330 seconds before the first clock value; all are COMPLETED but at most
\* one per miner, which is open. The miner with the hard-coded address
\* has no job, or one completed job that is the most recent of all. Each
\* miner is active or not; vA and vB are connected. One worker creates an
\* untargeted job for alice, bob, carol or dave.
\* ------------------------------------------------------------------------
MinerNow == 340
MinerHistories == {<<0, 0>>, <<1, 0>>, <<1, 1>>, <<2, 0>>, <<2, 1>>, <<2, 2>>,
                   <<11, 0>>, <<11, 1>>, <<11, 2>>, <<11, 11>>}

\* Job k of n (1 is the oldest) of a history that starts at time t.
HistoryJob(uuid, miner, k, t) == SavedJob(uuid, "alice", "vA", miner, t + 10 * (k - 1))

\* Its rows: SENT, and COMPLETED 5 seconds later. The open job is the
\* newest one, not yet completed, or an older one that was reported as
\* accepted after the newest job was completed.
HistoryRows(k, n, open, t) ==
    LET done == Append(SentAt(t + 10 * (k - 1)),
                       [status |-> COMPLETED, created_at |-> t + 10 * (k - 1) + 5])
    IN  IF k # open THEN done
        ELSE IF k = n THEN SentAt(t + 10 * (k - 1))
        ELSE Append(done, [status |-> ACCEPTED, created_at |-> t + 10 * n])

MinerInit ==
    /\ now \in {MinerNow, MinerNow + 1}
    /\ ticks = 0
    /\ validator_active = [v \in Validators |-> TRUE]
    /\ miner_active \in [Miners -> BOOLEAN]
    /\ scope = [c \in ConnIds |-> IF c = "c1" THEN "vA" ELSE "vB"]
    /\ channels = [c \in ConnIds |-> [validator |-> scope[c], last_heartbeat |-> now]]
    /\ conn = [c \in ConnIds |-> [state |-> "open", code |-> NO_CODE]]
    /\ response = [c \in ConnIds |-> IF scope[c] = NULL THEN "none" ELSE "success"]
    /\ handler = [c \in ConnIds |-> NoHandler]
    /\ layer = [c \in ConnIds |-> <<>>]
    /\ ws_out = [c \in ConnIds |-> <<>>]
    /\ \E a \in MinerHistories, b \in {h \in MinerHistories : h[1] <= 2},
          d \in {n \in 0..1 : n = 1 => miner_active[DEBUG_ADDRESS]} :
         /\ jobs = [u \in 1..(a[1] + b[1] + d) |->
                      IF u <= a[1] THEN HistoryJob(u, "mA", u, MinerNow - JOB_TIMEOUT)
                      ELSE IF u <= a[1] + b[1]
                      THEN HistoryJob(u, "mB", u - a[1], MinerNow - JOB_TIMEOUT + 1)
                      ELSE HistoryJob(u, DEBUG_ADDRESS, 1, MinerNow - 5)]
         /\ statuses = [u \in 1..(a[1] + b[1] + d) |->
                          IF u <= a[1]
                          THEN HistoryRows(u, a[1], a[2], MinerNow - JOB_TIMEOUT)
                          ELSE IF u <= a[1] + b[1]
                          THEN HistoryRows(u - a[1], b[1], b[2], MinerNow - JOB_TIMEOUT + 1)
                          ELSE HistoryRows(1, 1, 0, MinerNow - 5)]
    /\ worker = [p \in Workers |-> Idle]
    /\ locks = [m \in Miners |-> NULL]
    /\ result = [p \in Workers |-> NoResult]
    /\ version = 1
    /\ syncs = 0
    /\ machine_specs = {}
    /\ feedback = <<>>

MinerNext ==
    \/ SaveOnce({"w1"}, Users, {NULL}, {FALSE})
    \/ SaveSelectMiner({"w1"})
    \/ SendToValidator({"w1"})
    \/ SaveCommit({"w1"})
    \/ JobNew

SpecMiner == MinerInit /\ [][MinerNext]_vars

\* ------------------------------------------------------------------------
\* SpecConc: concurrent creations. Two workers each save one job for alice
\* at the same time, untargeted or targeted at vA, signed or not; vA is
\* connected; mA and mB are active, or mA alone; mA has no earlier job, or
\* 11 of which the oldest is open again.
\* ------------------------------------------------------------------------
ConcInit ==
    /\ now = MinerNow
    /\ ticks = 0
    /\ validator_active = [v \in Validators |-> TRUE]
    /\ \E second \in BOOLEAN : miner_active = [m \in Miners |-> m = "mA" \/ (second /\ m = "mB")]
    /\ scope = [c \in ConnIds |-> IF c = "c1" THEN "vA" ELSE NULL]
    /\ channels = [c \in {"c1"} |-> [validator |-> "vA", last_heartbeat |-> now]]
    /\ conn = [c \in ConnIds |-> [state |-> "open", code |-> NO_CODE]]
    /\ response = [c \in ConnIds |-> IF scope[c] = NULL THEN "none" ELSE "success"]
    /\ handler = [c \in ConnIds |-> NoHandler]
    /\ layer = [c \in ConnIds |-> <<>>]
    /\ ws_out = [c \in ConnIds |-> <<>>]
    /\ \E a \in {<<0, 0>>, <<11, 1>>} :
         /\ jobs = [u \in 1..a[1] |-> HistoryJob(u, "mA", u, MinerNow - JOB_TIMEOUT)]
         /\ statuses = [u \in 1..a[1] |->
                          HistoryRows(u, a[1], a[2], MinerNow - JOB_TIMEOUT)]
    /\ worker = [p \in Workers |-> Idle]
    /\ locks = [m \in Miners |-> NULL]
    /\ result = [p \in Workers |-> NoResult]
    /\ version = 1
    /\ syncs = 0
    /\ machine_specs = {}
    /\ feedback = <<>>

ConcNext ==
    \/ SaveOnce(Workers, {"alice"}, {NULL, "vA"}, BOOLEAN)
    \/ SaveSelectMiner(Workers)
    \/ SendToValidator(Workers)
    \/ SaveCommit(Workers)
    \/ JobNew
    \/ Advance({1}, ConcTicks)

SpecConc == ConcInit /\ [][ConcNext]_vars

\* ------------------------------------------------------------------------
\* SpecAuth: the connection protocol. Two consumers start unauthenticated;
\* vA and the validator with the debug address are active, vB is known and
\* inactive, vX is unknown. Every message type arrives in every connection
\* state, an AuthRequest with any of the four addresses and a signature
\* that verifies or not, a status report for job 1, for an unknown uuid or
\* with a uuid that is no UUID; a transport closes; the clock moves by 180
\* or 181 seconds.
\* ------------------------------------------------------------------------

AuthInit ==
    /\ now = 0
    /\ ticks = 0
    /\ validator_active = [v \in Validators |-> v # "vB"]
    /\ miner_active = [m \in Miners |-> m # DEBUG_ADDRESS]
    /\ channels = <<>>
    /\ scope = [c \in ConnIds |-> NULL]
    /\ conn = [c \in ConnIds |-> [state |-> "open", code |-> NO_CODE]]
    /\ response = [c \in ConnIds |-> "none"]
    /\ handler = [c \in ConnIds |-> NoHandler]
    /\ layer = [c \in ConnIds |-> <<>>]
    /\ ws_out = [c \in ConnIds |-> <<>>]
    /\ jobs = <<SavedJob(1, "alice", "vA", "mA", 0)>>
    /\ statuses = <<SentAt(0)>>
    /\ worker = [p \in Workers |-> Idle]
    /\ locks = [m \in Miners |-> NULL]
    /\ result = [p \in Workers |-> NoResult]
    /\ version = 1
    /\ syncs = 0
    /\ machine_specs = {}
    /\ feedback = <<>>

AuthNext ==
    \/ Authenticate(Addresses, BOOLEAN)
    \/ JobStatusUpdateOf({MALFORMED_UUID, 0, 1}, {ACCEPTED}, {TRUE})
    \/ JobStatusCreate
    \/ MachineSpecsUpdate
    \/ Heartbeat
    \/ Disconnect
    \/ Advance({LIVENESS_WINDOW, LIVENESS_WINDOW + 1}, AuthTicks)

SpecAuth == AuthInit /\ [][AuthNext]_vars

\* ------------------------------------------------------------------------
\* SpecWait: one call of wait_completed. Job 1 was created at time 0 for vA
\* and is between 0 and MaxWaitAge seconds old when the caller starts to wait
\* for it, with or without an accepted report; the clock moves as the caller
\* sleeps between its attempts; the validator reports completed at any of
\* these times, or never.
\* The caller keeps running: an enabled attempt or sleep is taken.
\* ------------------------------------------------------------------------
WaitInit ==
    /\ now \in 0..MaxWaitAge
    /\ ticks = 0
    /\ validator_active = [v \in Validators |-> TRUE]
    /\ miner_active = [m \in Miners |-> m # DEBUG_ADDRESS]
    /\ scope = [c \in ConnIds |-> IF c = "c1" THEN "vA" ELSE NULL]
    /\ channels = [c \in {"c1"} |-> [validator |-> "vA", last_heartbeat |-> now]]
    /\ conn = [c \in ConnIds |-> [state |-> "open", code |-> NO_CODE]]
    /\ response = [c \in ConnIds |-> IF scope[c] = NULL THEN "none" ELSE "success"]
    /\ handler = [c \in ConnIds |-> NoHandler]
    /\ layer = [c \in ConnIds |-> <<>>]
    /\ ws_out = [c \in ConnIds |-> IF c = "c1" THEN <<1>> ELSE <<>>]
    /\ jobs = <<SavedJob(1, "alice", "vA", "mA", 0)>>
    /\ \E accepted \in BOOLEAN :
         statuses = <<IF accepted
                      THEN Append(SentAt(0), [status |-> ACCEPTED, created_at |-> 0])
                      ELSE SentAt(0)>>
    /\ worker = [p \in Workers |-> Idle]
    /\ locks = [m \in Miners |-> NULL]
    /\ result = [p \in Workers |-> NoResult]
    /\ version = 1
    /\ syncs = 0
    /\ machine_specs = {}
    /\ feedback = <<>>

WaitNext ==
    \/ WaitOnce({"w1"})
    \/ WaitCompleted({"w1"})
    \/ WaitSleep({"w1"})
    \/ JobStatusUpdateOf({1}, {COMPLETED}, {TRUE})
    \/ JobStatusCreate

SpecWait ==
    /\ WaitInit
    /\ [][WaitNext]_vars
    /\ WF_vars(WaitCompleted({"w1"}))
    /\ WF_vars(WaitSleep({"w1"}))

\* ------------------------------------------------------------------------
\* SpecSync: a validator leaves the metagraph. Consumer c1 is registered
\* for vA, c2 is connected and not authenticated; c2 authenticates as vA,
\* its lookup and its registration being two queries; a consumer sends a
\* heartbeat, a report whose uuid is no UUID, or closes; the sync
\* deactivates vA and tells its channels to disconnect. Consumers keep
\* running: a queued disconnect and a pending registration are handled.
\* ------------------------------------------------------------------------
SyncInit ==
    /\ now = 0
    /\ ticks = 0
    /\ validator_active = [v \in Validators |-> TRUE]
    /\ miner_active = [m \in Miners |-> m # DEBUG_ADDRESS]
    /\ scope = [c \in ConnIds |-> IF c = "c1" THEN "vA" ELSE NULL]
    /\ channels = [c \in {"c1"} |-> [validator |-> "vA", last_heartbeat |-> now]]
    /\ conn = [c \in ConnIds |-> [state |-> "open", code |-> NO_CODE]]
    /\ response = [c \in ConnIds |-> IF scope[c] = NULL THEN "none" ELSE "success"]
    /\ handler = [c \in ConnIds |-> NoHandler]
    /\ layer = [c \in ConnIds |-> <<>>]
    /\ ws_out = [c \in ConnIds |-> <<>>]
    /\ jobs = <<>>
    /\ statuses = <<>>
    /\ worker = [p \in Workers |-> Idle]
    /\ locks = [m \in Miners |-> NULL]
    /\ result = [p \in Workers |-> NoResult]
    /\ version = 1
    /\ syncs = 0
    /\ machine_specs = {}
    /\ feedback = <<>>

SyncNext ==
    \/ AuthenticateLookup({"vA"}, {TRUE})
    \/ AuthenticateRegister
    \/ Heartbeat
    \/ JobStatusUpdateOf({MALFORMED_UUID}, {ACCEPTED}, {TRUE})
    \/ Disconnect
    \/ SyncMetagraph({"vA"})
    \/ ValidatorDisconnect
    \/ Advance({1}, SyncTicks)

SpecSync ==
    /\ SyncInit
    /\ [][SyncNext]_vars
    /\ WF_vars(ValidatorDisconnect)
    /\ WF_vars(AuthenticateRegister)

\* ------------------------------------------------------------------------
\* SpecCreate: job creation by the API and by the form views. Each of two
\* workers handles one creation for alice or carol, with docker_image and
\* raw_script each empty or not; vA is connected or no validator is; mA is
\* the only active miner, or no miner is active.
\* ------------------------------------------------------------------------
CreateInit ==
    /\ now = 0
    /\ ticks = 0
    /\ validator_active = [v \in Validators |-> TRUE]
    /\ \E first \in BOOLEAN : miner_active = [m \in Miners |-> first /\ m = "mA"]
    /\ \E registered \in BOOLEAN :
         /\ scope = [c \in ConnIds |-> IF registered /\ c = "c1" THEN "vA" ELSE NULL]
         /\ channels = [c \in {x \in ConnIds : scope[x] # NULL} |->
                          [validator |-> scope[c], last_heartbeat |-> now]]
    /\ conn = [c \in ConnIds |-> [state |-> "open", code |-> NO_CODE]]
    /\ response = [c \in ConnIds |-> IF scope[c] = NULL THEN "none" ELSE "success"]
    /\ handler = [c \in ConnIds |-> NoHandler]
    /\ layer = [c \in ConnIds |-> <<>>]
    /\ ws_out = [c \in ConnIds |-> <<>>]
    /\ jobs = <<>>
    /\ statuses = <<>>
    /\ worker = [p \in Workers |-> Idle]
    /\ locks = [m \in Miners |-> NULL]
    /\ result = [p \in Workers |-> NoResult]
    /\ version = 1
    /\ syncs = 0
    /\ machine_specs = {}
    /\ feedback = <<>>

CreateNext ==
    \/ PerformCreate(Workers, {"alice", "carol"}, BOOLEAN, BOOLEAN)
    \/ FormValid(Workers, {"alice", "carol"}, BOOLEAN, BOOLEAN)
    \/ SaveSelectMiner(Workers)
    \/ SendToValidator(Workers)
    \/ SaveCommit(Workers)
    \/ JobNew

SpecCreate == CreateInit /\ [][CreateNext]_vars

\* ------------------------------------------------------------------------
\* SpecFeedback: feedback submissions. Job 1 is alice's and job 2 is bob's;
\* each of two workers handles one submission, by alice or bob, for job 1, 2
\* or 3 (which does not exist), signed or not, and the two may overlap.
\* ------------------------------------------------------------------------
FeedbackInit ==
    /\ now = 10
    /\ ticks = 0
    /\ validator_active = [v \in Validators |-> TRUE]
    /\ miner_active = [m \in Miners |-> m # DEBUG_ADDRESS]
    /\ scope = [c \in ConnIds |-> NULL]
    /\ channels = <<>>
    /\ conn = [c \in ConnIds |-> [state |-> "open", code |-> NO_CODE]]
    /\ response = [c \in ConnIds |-> "none"]
    /\ handler = [c \in ConnIds |-> NoHandler]
    /\ layer = [c \in ConnIds |-> <<>>]
    /\ ws_out = [c \in ConnIds |-> <<>>]
    /\ jobs = (1 :> SavedJob(1, "alice", "vA", "mA", 0))
              @@ (2 :> SavedJob(2, "bob", "vA", "mB", 0))
    /\ statuses = (1 :> Append(SentAt(0), [status |-> COMPLETED, created_at |-> 5]))
                  @@ (2 :> Append(SentAt(0), [status |-> COMPLETED, created_at |-> 5]))
    /\ worker = [p \in Workers |-> Idle]
    /\ locks = [m \in Miners |-> NULL]
    /\ result = [p \in Workers |-> NoResult]
    /\ version = 1
    /\ syncs = 0
    /\ machine_specs = {}
    /\ feedback = <<>>

FeedbackNext ==
    \/ FeedbackCheck(Workers, {"alice", "bob"}, 1..3, BOOLEAN, 0..1)
    \/ FeedbackSave(Workers)

SpecFeedback == FeedbackInit /\ [][FeedbackNext]_vars

\* ------------------------------------------------------------------------
\* SpecRead: reads of a job. Job 1 is alice's, created at 0 with a download
\* URL that is valid up to and including DOWNLOAD_PRESIGNED_URL_LIFETIME;
\* a worker reads it by the detail page, by the API's retrieve or by its
\* list while the clock goes on by a second or by the lifetime of a URL.
\* ------------------------------------------------------------------------
ReadTicks == 3

ReadInit ==
    /\ now = 0
    /\ ticks = 0
    /\ validator_active = [v \in Validators |-> TRUE]
    /\ miner_active = [m \in Miners |-> m # DEBUG_ADDRESS]
    /\ scope = [c \in ConnIds |-> NULL]
    /\ channels = <<>>
    /\ conn = [c \in ConnIds |-> [state |-> "open", code |-> NO_CODE]]
    /\ response = [c \in ConnIds |-> "none"]
    /\ handler = [c \in ConnIds |-> NoHandler]
    /\ layer = [c \in ConnIds |-> <<>>]
    /\ ws_out = [c \in ConnIds |-> <<>>]
    /\ jobs = <<SavedJob(1, "alice", "vA", "mA", 0)>>
    /\ statuses = <<Append(SentAt(0), [status |-> COMPLETED, created_at |-> 0])>>
    /\ worker = [p \in Workers |-> Idle]
    /\ locks = [m \in Miners |-> NULL]
    /\ result = [p \in Workers |-> NoResult]
    /\ version = 1
    /\ syncs = 0
    /\ machine_specs = {}
    /\ feedback = <<>>

ReadNext ==
    \/ DetailGetObject({"w1"})
    \/ Retrieve({"w1"}, {"alice", "bob"}, 1..2)
    \/ List({"w1"}, {"alice", "bob"})
    \/ Advance({1, DOWNLOAD_PRESIGNED_URL_LIFETIME}, ReadTicks)

SpecRead == ReadInit /\ [][ReadNext]_vars

\* ------------------------------------------------------------------------
\* SpecEvict: eviction of jobs. Three jobs of alice were created in the
\* seconds 0..EvictAges, with a history of one or two rows and with or
\* without feedback; the clock starts one retention period after second 0
\* and goes on second by second; the eviction runs at any time, any number
\* of times.
\* ------------------------------------------------------------------------
EvictAges == 2
EvictTicks == 3

EvictInit ==
    /\ now = JOBS_RETENTION_PERIOD
    /\ ticks = 0
    /\ validator_active = [v \in Validators |-> TRUE]
    /\ miner_active = [m \in Miners |-> m # DEBUG_ADDRESS]
    /\ scope = [c \in ConnIds |-> NULL]
    /\ channels = <<>>
    /\ conn = [c \in ConnIds |-> [state |-> "open", code |-> NO_CODE]]
    /\ response = [c \in ConnIds |-> "none"]
    /\ handler = [c \in ConnIds |-> NoHandler]
    /\ layer = [c \in ConnIds |-> <<>>]
    /\ ws_out = [c \in ConnIds |-> <<>>]
    /\ \E created \in [1..3 -> 0..EvictAges], done \in SUBSET (1..3) :
         /\ jobs = [u \in 1..3 |-> SavedJob(u, "alice", "vA", "mA", created[u])]
         /\ statuses = [u \in 1..3 |->
                          IF u \in done
                          THEN Append(SentAt(created[u]),
                                      [status |-> COMPLETED, created_at |-> created[u] + 1])
                          ELSE SentAt(created[u])]
         /\ feedback = [u \in done |->
                          [user |-> "alice", created_at |-> created[u] + 2,
                           result_correctness |-> 1]]
    /\ worker = [p \in Workers |-> Idle]
    /\ locks = [m \in Miners |-> NULL]
    /\ result = [p \in Workers |-> NoResult]
    /\ version = 1
    /\ syncs = 0
    /\ machine_specs = {}

EvictNext ==
    \/ evict_jobs
    \/ Advance({1}, EvictTicks)

SpecEvict == EvictInit /\ [][EvictNext]_vars

\* ------------------------------------------------------------------------
\* SpecDispatch: one creation against the consumers of its validator. The
\* protocol version is 0 or 1; consumer c1 is registered to vA and c2 to vA
\* or to nobody; worker w1 saves one job for alice, with or without the
\* target vA and a signature; the push and the end of the transaction may
\* fail; the consumers forward the payloads, the validator reports sent,
\* accepted or completed on the payloads it received, a consumer may close
\* at any time, and the clock may go on by a second.
\* ------------------------------------------------------------------------
ReplyTicks == 1

DispatchInit ==
    /\ now = 0
    /\ ticks = 0
    /\ validator_active = [v \in Validators |-> TRUE]
    /\ miner_active = [m \in Miners |-> m = "mA"]
    /\ \E second \in {NULL, "vA"} :
         /\ scope = [c \in ConnIds |-> IF c = "c1" THEN "vA" ELSE second]
         /\ channels = [c \in {x \in ConnIds : scope[x] # NULL} |->
                          [validator |-> scope[c], last_heartbeat |-> now]]
    /\ conn = [c \in ConnIds |-> [state |-> "open", code |-> NO_CODE]]
    /\ response = [c \in ConnIds |-> IF scope[c] = NULL THEN "none" ELSE "success"]
    /\ handler = [c \in ConnIds |-> NoHandler]
    /\ layer = [c \in ConnIds |-> <<>>]
    /\ ws_out = [c \in ConnIds |-> <<>>]
    /\ jobs = <<>>
    /\ statuses = <<>>
    /\ worker = [p \in Workers |-> Idle]
    /\ locks = [m \in Miners |-> NULL]
    /\ result = [p \in Workers |-> NoResult]
    /\ version \in 0..1
    /\ syncs = 0
    /\ machine_specs = {}
    /\ feedback = <<>>

DispatchNext ==
    \/ SaveOnce({"w1"}, {"alice"}, {NULL, "vA"}, BOOLEAN)
    \/ SaveSelectMiner({"w1"})
    \/ SendToValidator({"w1"})
    \/ SendToValidatorFailing({"w1"})
    \/ SaveCommit({"w1"})
    \/ SaveCommitFailing({"w1"})
    \/ JobNew
    \/ ReceiveReply({"sent", "accepted", "completed"}, {TRUE})
    \/ JobStatusCreate
    \/ Disconnect
    \/ Advance({1}, ReplyTicks)

SpecDispatch == DispatchInit /\ [][DispatchNext]_vars

\* ------------------------------------------------------------------------
\* Properties
\* ------------------------------------------------------------------------
\* A channel is fresh when its heartbeat is at most LIVENESS_WINDOW seconds
\* old, stale otherwise; a validator is connected when it has a fresh channel.
Fresh(c) == c \in DOMAIN channels /\ now - channels[c].last_heartbeat <= LIVENESS_WINDOW

Stale(c) == c \in DOMAIN channels /\ now - channels[c].last_heartbeat > LIVENESS_WINDOW

Connected(v) == \E c \in ConnIds : Fresh(c) /\ channels[c].validator = v

\* Steps of Job.save seen from its caller: select_validator returned a
\* validator, or save raised before any validator was selected.
Selected(p) == worker[p].pc = "idle" /\ worker'[p].pc = "select_miner"

Refused(p) == worker[p].pc = "idle" /\ worker'[p].pc = "idle" /\ result'[p] # result[p]

Targeted(job) == job.target_validator_hotkey # NULL

RECURSIVE Count(_, _)
Count(s, x) == IF s = <<>> THEN 0 ELSE Count(Tail(s), x) + (IF Head(s) = x THEN 1 ELSE 0)

\* How many times the payload of job u was pushed to consumer c, whether it
\* still waits in the channel layer or was forwarded to the socket.
Pushes(lay, out, c, u) == Count(lay[c], Message("job.new", u)) + Count(out[c], u)

StatusValues(rows) == [i \in 1..Len(rows) |-> rows[i].status]

\* C4: select_validator returns a validator of the connected set (a validator
\* with at least one channel whose heartbeat is inside the 3-minute window at
\* selection time), unless the job carries a target and a signature.
C4_SelectedIsConnected ==
    [][\A p \in Workers :
         Selected(p) =>
           \/ Connected(worker'[p].job.validator)
           \/ Targeted(worker'[p].job) /\ worker'[p].job.signature_info]_vars

\* An untargeted job was just given a validator while another validator
\* had only a stale channel.
C4_Witness ==
    \E p \in Workers :
        /\ worker[p].pc = "select_miner"
        /\ ~Targeted(worker[p].job)
        /\ worker[p].job.created_at = now
        /\ \E c \in ConnIds : Stale(c) /\ channels[c].validator # worker[p].job.validator

\* C6: a targeted, signed job gets its target only if the target is a known,
\* active and connected validator; otherwise save raises
\* Validator.DoesNotExist; an untargeted job gets a connected validator.
C6_TargetKnownActiveConnected ==
    [][\A p \in Workers :
         /\ Selected(p) /\ Targeted(worker'[p].job) /\ worker'[p].job.signature_info =>
              LET t == worker'[p].job.target_validator_hotkey IN
                /\ worker'[p].job.validator = t
                /\ t \in Validators
                /\ validator_active[t]
                /\ Connected(t)
         /\ Refused(p) /\ Targeted(result'[p].job) /\ result'[p].job.signature_info =>
              LET t == result'[p].job.target_validator_hotkey IN
                /\ result'[p].kind = "Validator.DoesNotExist"
                /\ ~(t \in Validators /\ validator_active[t] /\ Connected(t))
         /\ Selected(p) /\ ~Targeted(worker'[p].job) =>
              Connected(worker'[p].job.validator)]_vars

\* A targeted, signed job was given a target that is no longer active.
C6_Witness ==
    \E p \in Workers :
        /\ worker[p].pc = "select_miner"
        /\ Targeted(worker[p].job)
        /\ worker[p].job.signature_info
        /\ worker[p].job.created_at = now
        /\ ~validator_active[worker[p].job.validator]
        /\ \E c \in ConnIds :
             /\ Fresh(c)
             /\ channels[c].validator = worker[p].job.validator
             /\ layer[c] = <<Message("validator.disconnect", 0)>>

\* C7: a job with a target and no signature makes save raise the ValueError
\* "Request must be signed", whether or not the target is connected; no Job
\* row, no JobStatus row and no payload comes of it.
C7_UnsignedTargetRefused ==
    [][\A p \in Workers :
         /\ Selected(p) => ~(Targeted(worker'[p].job) /\ ~worker'[p].job.signature_info)
         /\ Refused(p) /\ Targeted(result'[p].job) /\ ~result'[p].job.signature_info =>
              /\ result'[p].kind = "ValueError"
              /\ UNCHANGED <<jobs, statuses, layer, ws_out>>
         /\ \A u \in DOMAIN jobs' :
              Targeted(jobs'[u]) => jobs'[u].signature_info]_vars

\* save raised the ValueError for a target that is connected.
C7_Witness ==
    \E p \in Workers :
        /\ result[p].kind = "ValueError"
        /\ result[p].job.created_at = now
        /\ Connected(result[p].job.target_validator_hotkey)
        /\ jobs = <<>>

\* C9: when save of a new job succeeds the status history of the job is
\* exactly [SENT], and its payload was pushed exactly once to every channel
\* registered for the selected validator when send_to_validator ran, stale
\* channels included, and to no other consumer.
C9_PushedOnceToEveryChannel ==
    [][\A p \in Workers :
         LET job == worker[p].job IN
         /\ worker[p].pc = "send_to_validator" /\ worker'[p].pc = "create_status" =>
              /\ worker'[p].names =
                   {c \in DOMAIN channels : channels[c].validator = job.validator}
              /\ \A c \in ConnIds :
                   Pushes(layer', ws_out', c, job.uuid) =
                       IF c \in worker'[p].names THEN 1 ELSE 0
         /\ worker[p].pc = "create_status" /\ worker'[p].pc = "idle" =>
              /\ result'[p] = [kind |-> "ok", job |-> job, value |-> NULL]
              /\ jobs'[job.uuid] = job
              /\ StatusValues(statuses'[job.uuid]) = <<SENT>>
              /\ \A c \in ConnIds :
                   Pushes(layer', ws_out', c, job.uuid) =
                       IF c \in worker[p].names THEN 1 ELSE 0
         /\ result'[p].kind = "ok" /\ result'[p] # result[p] =>
              worker[p].pc = "create_status"]_vars

\* save succeeded and a stale channel of the selected validator holds the
\* payload.
C9_Witness ==
    \E p \in Workers :
        /\ result[p].kind = "ok"
        /\ result[p].job.created_at = now
        /\ StatusValues(statuses[result[p].job.uuid]) = <<SENT>>
        /\ \E c \in ConnIds :
             /\ Stale(c)
             /\ channels[c].validator = result[p].job.validator
             /\ Pushes(layer, ws_out, c, result[p].job.uuid) = 1

\* The candidates of an untargeted job: the connected set, narrowed to the
\* preferred validators of the user when one of them is connected or the
\* preference is exclusive.
Candidates(user) ==
    LET connected == {v \in Validators : Connected(v)}
        preferred == PreferredValidators(user)
    IN  IF preferred # {} /\ (connected \cap preferred # {} \/ Exclusive(user))
        THEN connected \cap preferred
        ELSE connected

\* The creation time of the last job of a validator, NULL_TIME when it has none.
LastJobTime(v) ==
    IF \E u \in DOMAIN jobs : jobs[u].validator = v
    THEN Max({jobs[u].created_at : u \in {x \in DOMAIN jobs : jobs[x].validator = v}})
    ELSE NULL_TIME

\* C8: an untargeted job gets a candidate whose last job creation time is
\* minimal among the candidates, a validator without jobs ranking before
\* every validator with one; save raises Validator.DoesNotExist exactly
\* when there is no candidate.
C8_LeastRecentlyUsedCandidate ==
    [][\A p \in Workers :
         /\ Selected(p) /\ ~Targeted(worker'[p].job) =>
              LET v == worker'[p].job.validator
                  candidates == Candidates(worker'[p].job.user)
              IN  /\ v \in candidates
                  /\ \A y \in candidates : LastJobTime(v) <= LastJobTime(y)
         /\ Refused(p) /\ ~Targeted(result'[p].job) =>
              /\ result'[p].kind = "Validator.DoesNotExist"
              /\ Candidates(result'[p].job.user) = {}]_vars

\* The validator with the hard-coded address was selected although another
\* candidate had never been given a job.
C8_Witness ==
    \E p \in Workers :
        /\ worker[p].pc = "select_miner"
        /\ worker[p].job.validator = DEBUG_ADDRESS
        /\ LastJobTime(DEBUG_ADDRESS) = 300
        /\ \E y \in Candidates(worker[p].job.user) : LastJobTime(y) = NULL_TIME

\* The second query of a status report on consumer c runs in this step.
Reported(c) ==
    /\ handler[c] # NoHandler
    /\ handler'[c] = NoHandler \/ conn'[c].state = "crashed"

Recorded(u, value) ==
    u \in DOMAIN statuses /\ \E i \in 1..Len(statuses[u]) : statuses[u][i].status = value

\* C1: a job has at most one JobStatus row of each status value; a report
\* of a value already recorded, from any consumer, also one that overlaps
\* another report, is answered with job.integrity_error, changes no row, and
\* leaves the consumer open and authenticated.
C1_DuplicateStatusRejected ==
    [][/\ \A u \in DOMAIN statuses' : \A i, j \in 1..Len(statuses'[u]) :
             statuses'[u][i].status = statuses'[u][j].status => i = j
       /\ \A c \in ConnIds :
            Reported(c) /\ Recorded(handler[c].uuid, handler[c].status) =>
              /\ response'[c] = "job.integrity_error"
              /\ statuses' = statuses
              /\ conn'[c].state = "open"
              /\ scope'[c] # NULL
              /\ c \in DOMAIN channels']_vars

\* The only authenticated consumer stopped inside a report, sent without
\* metadata, of a value that was already recorded.
C1_Witness ==
    \E c \in ConnIds :
        /\ conn[c].state = "crashed"
        /\ handler[c] # NoHandler
        /\ Recorded(handler[c].uuid, handler[c].status)
        /\ \A d \in ConnIds \ {c} : scope[d] = NULL

\* The current status of a job: the value of its most recently created
\* JobStatus row, the later inserted of two rows created at the same time.
CurrentStatus(rows) ==
    LET i == CHOOSE k \in 1..Len(rows) : \A j \in 1..Len(rows) :
                 \/ rows[j].created_at < rows[k].created_at
                 \/ rows[j].created_at = rows[k].created_at /\ j <= k
    IN  rows[i].status

Terminal(value) == value \in {FAILED, REJECTED, COMPLETED}

IsComplete(job, rows, t) == Terminal(CurrentStatus(rows)) \/ t - job.created_at > JOB_TIMEOUT

\* C5: is_completed is true exactly when the current status of the job is
\* FAILED, REJECTED or COMPLETED or the job is more than JOB_TIMEOUT (330 s)
\* old: a job that is not terminal is not completed at the age of 330 s and
\* is completed at 331 s. wait_completed returns exactly when this holds.
C5_CompletedIffTerminalOrTimedOut ==
    [][/\ \A u \in DOMAIN jobs :
            is_completed(jobs[u], statuses[u], now) <=> IsComplete(jobs[u], statuses[u], now)
       /\ \A u \in DOMAIN jobs' :
            /\ is_completed(jobs'[u], statuses'[u], now')
                 <=> IsComplete(jobs'[u], statuses'[u], now')
            /\ ~Terminal(CurrentStatus(statuses'[u])) /\ now' - jobs'[u].created_at = JOB_TIMEOUT
                 => ~is_completed(jobs'[u], statuses'[u], now')
            /\ ~Terminal(CurrentStatus(statuses'[u])) /\ now' - jobs'[u].created_at = JOB_TIMEOUT + 1
                 => is_completed(jobs'[u], statuses'[u], now')
       /\ \A p \in Workers :
            worker[p].pc = "wait_completed" /\ worker'[p] # worker[p] =>
              LET u == worker[p].job.uuid IN
              (result'[p].kind = "returned") <=> IsComplete(jobs[u], statuses[u], now)]_vars

\* wait_completed returned the status of a job that is JOB_TIMEOUT + 1
\* seconds old and not terminal.
C5_Witness ==
    \E p \in Workers :
        /\ result[p].kind = "returned"
        /\ ~Terminal(result[p].value)
        /\ ~Terminal(CurrentStatus(statuses[result[p].job.uuid]))
        /\ now - result[p].job.created_at = JOB_TIMEOUT + 1

\* C10: once a job is saved, nothing changes its uuid, validator, miner or
\* upload URL, adds a second SENT row or pushes its payload again: not a
\* status report, not the re-save that refreshes the download URL, not
\* wait_completed.
C10_AssignmentDecidedOnce ==
    [][\A u \in DOMAIN jobs :
         /\ u \in DOMAIN jobs'
         /\ jobs'[u].uuid = jobs[u].uuid
         /\ jobs'[u].validator = jobs[u].validator
         /\ jobs'[u].miner = jobs[u].miner
         /\ jobs'[u].output_upload_url = jobs[u].output_upload_url
         /\ Count(StatusValues(statuses'[u]), SENT) = 1
         /\ \A c \in ConnIds :
              Pushes(layer', ws_out', c, u) = Pushes(layer, ws_out, c, u)]_vars

\* The job was re-saved with a new download URL, has a reported status, and
\* wait_completed returned for it.
C10_Witness ==
    \E p \in Workers :
        /\ result[p].kind = "returned"
        /\ result[p].job.uuid = 1
        /\ jobs[1].output_download_url_expires_at > DOWNLOAD_PRESIGNED_URL_LIFETIME
        /\ Len(statuses[1]) > 1
        /\ Pushes(layer, ws_out, "c1", 1) = 1

\* The 10 most recently created jobs of a miner.
LastTen(m) ==
    LET mine == {u \in DOMAIN jobs : jobs[u].miner = m}
    IN  {u \in mine :
           Cardinality({w \in mine : jobs[w].created_at > jobs[u].created_at}) < 10}

\* Steps of Job.save: select_miner returned a miner, or raised.
MinerSelected(p) == worker[p].pc = "select_miner" /\ worker'[p].pc = "send_to_validator"
                    /\ ~Targeted(worker[p].job)

MinerRefused(p) == worker[p].pc = "select_miner" /\ worker'[p].pc = "idle"

\* C2: the miner select_miner returns is active and each of its 10 most
\* recently created jobs is complete at selection time (terminal current
\* status, or older than JOB_TIMEOUT); an active miner without jobs is
\* eligible, so select_miner does not raise while one is there that the
\* preferences of the user allow.
C2_SelectedMinerHasNoOpenJob ==
    [][\A p \in Workers :
         /\ MinerSelected(p) =>
              LET m == worker'[p].job.miner IN
                /\ m \in Miners
                /\ miner_active[m]
                /\ \A u \in LastTen(m) : IsComplete(jobs[u], statuses[u], now)
         /\ MinerRefused(p) =>
              /\ result'[p].kind = "Miner.DoesNotExist"
              /\ \A m \in Miners :
                   miner_active[m] /\ LastTen(m) = {} =>
                     Exclusive(worker[p].job.user) /\ m \notin PreferredMiners(worker[p].job.user)]_vars

\* A miner with 11 jobs was selected: its 10 latest are complete, its
\* oldest is still open.
C2_Witness ==
    \E p \in Workers :
        /\ worker[p].pc = "send_to_validator"
        /\ Cardinality({u \in DOMAIN jobs : jobs[u].miner = worker[p].job.miner}) = 11
        /\ \E u \in DOMAIN jobs :
             /\ jobs[u].miner = worker[p].job.miner
             /\ u \notin LastTen(worker[p].job.miner)
             /\ ~IsComplete(jobs[u], statuses[u], now)

\* A creation that has been given a miner and is not committed yet.
InFlight(q, m) ==
    worker[q].pc \in {"send_to_validator", "create_status"} /\ worker[q].job.miner = m

C11_SecondAuthRejected ==
    [][\A c \in ConnIds, a \in Addresses, ok \in BOOLEAN :
         authenticate(c, a, ok) /\ scope[c] # NULL =>
           /\ response'[c] = "auth.already_authenticated"
           /\ \A d \in ConnIds \ {c} : response'[d] = response[d]
           /\ UNCHANGED <<scope, conn, channels, handler, layer, ws_out, jobs, statuses,
                          machine_specs, feedback>>
           /\ conn'[c].state = "open"
           /\ c \in DOMAIN channels'
           /\ channels'[c].validator = scope'[c]]_vars

\* A connection authenticated as vA was told that it is already
\* authenticated, and both connections are registered.
C11_Witness ==
    \E c \in ConnIds :
        /\ response[c] = "auth.already_authenticated"
        /\ scope[c] = "vA"
        /\ conn[c].state = "open"
        /\ DOMAIN channels = ConnIds
        /\ channels[c].validator = "vA"

\* C12: on an authenticated connection a status report whose uuid names no
\* job, a UUID that is unknown or a string that is no UUID at all, is
\* answered with job.not_found, creates no JobStatus row, and leaves the
\* connection open and authenticated.
C12_UnknownJobNotFound ==
    [][\A c \in ConnIds, u \in {MALFORMED_UUID, 0}, v \in Statuses, m \in BOOLEAN :
         job_status_update(c, u, v, m) /\ scope[c] # NULL =>
           /\ response'[c] = "job.not_found"
           /\ UNCHANGED <<statuses, jobs, handler, scope, channels>>
           /\ conn'[c].state = "open"]_vars

\* An authenticated, registered consumer stopped in the lookup of the job.
C12_Witness ==
    \E c \in ConnIds :
        /\ conn[c].state = "crashed"
        /\ handler[c] = NoHandler
        /\ scope[c] = "vA"
        /\ c \in DOMAIN channels
        /\ response[c] = "success"

\* C15: an AuthRequest that fails on an unauthenticated connection is
\* answered with an error, registers nothing, leaves the connection
\* unauthenticated and closes it: with NOT_FOUND when the address is not
\* that of a known active validator, whatever the signature, and with
\* INVALID_SIGNATURE when it is and the signature does not verify.
C15_FailedAuthCloses ==
    [][\A c \in ConnIds, a \in Addresses, ok \in BOOLEAN :
         authenticate(c, a, ok) /\ scope[c] = NULL
             /\ ~(a \in Validators /\ validator_active[a] /\ ok) =>
           LET known == a \in Validators /\ validator_active[a] IN
           /\ response'[c] = IF known THEN "auth.signature_invalid"
                             ELSE "auth.validator_not_found"
           /\ conn'[c] = [state |-> "closed",
                          code |-> IF known THEN INVALID_SIGNATURE ELSE NOT_FOUND]
           /\ scope'[c] = NULL
           /\ UNCHANGED channels
           /\ c \notin DOMAIN channels']_vars

\* One connection was closed for an address that is not found, the other
\* for a signature that does not verify; nothing is registered.
C15_Witness ==
    \E c \in ConnIds, d \in ConnIds :
        /\ conn[c] = Closed(NOT_FOUND) /\ response[c] = "auth.validator_not_found"
        /\ conn[d] = Closed(INVALID_SIGNATURE) /\ response[d] = "auth.signature_invalid"
        /\ scope[c] = NULL /\ scope[d] = NULL
        /\ channels = <<>>

\* C16: a valid AuthRequest on an unauthenticated connection (address of a
\* known active validator, signature verifies) is answered with success,
\* makes the connection authenticated as that validator and adds exactly one
\* registry entry, for this connection and that validator, with the
\* heartbeat set to the time of registration. While the connection stays
\* open the entry stays and its heartbeat never moves back, and an entry
\* whose heartbeat is at most LIVENESS_WINDOW old puts its validator into the
\* connected set that select_validator computes: the validator is connected
\* for the whole window without any Heartbeat message.
C16_ValidAuthRegisters ==
    /\ [][\A c \in ConnIds :
            /\ \A a \in Addresses, ok \in BOOLEAN :
                 authenticate(c, a, ok) /\ scope[c] = NULL
                     /\ a \in Validators /\ validator_active[a] /\ ok =>
                   /\ response'[c] = "success"
                   /\ scope'[c] = a
                   /\ conn'[c] = [state |-> "open", code |-> NO_CODE]
                   /\ c \notin DOMAIN channels
                   /\ DOMAIN channels' = DOMAIN channels \cup {c}
                   /\ channels'[c] = [validator |-> a, last_heartbeat |-> now]
                   /\ \A d \in DOMAIN channels : channels'[d] = channels[d]
            /\ c \in DOMAIN channels /\ conn'[c].state = "open" =>
                   /\ c \in DOMAIN channels'
                   /\ channels'[c].validator = channels[c].validator
                   /\ channels'[c].last_heartbeat >= channels[c].last_heartbeat]_vars
    /\ [](\A c \in DOMAIN channels :
            now - channels[c].last_heartbeat <= LIVENESS_WINDOW =>
              channels[c].validator \in connected_validator_ids(channels, now))

\* A connection registered at time 0 is, 180 seconds later and with its
\* heartbeat still that of the registration, the only one that keeps its
\* validator in the connected set.
C16_Witness ==
    \E c \in ConnIds :
        /\ now = LIVENESS_WINDOW
        /\ DOMAIN channels = {c}
        /\ channels[c].last_heartbeat = 0
        /\ response[c] = "success"
        /\ scope[c] = "vA"
        /\ statuses[1] = SentAt(0)
        /\ machine_specs = {}
        /\ connected_validator_ids(channels, now) = {"vA"}

\* The answer to a message that needs authentication on a connection that
\* has none: an error, and nothing else changes.
NotAuthenticated(c) ==
    /\ response'[c] = "auth.not_authenticated"
    /\ \A d \in ConnIds \ {c} : response'[d] = response[d]
    /\ UNCHANGED <<statuses, jobs, channels, machine_specs, scope, conn, handler, layer,
                   ws_out>>
    /\ conn'[c].state = "open"
    /\ scope'[c] = NULL

\* C17: while a connection is unauthenticated every JobStatusUpdate (for an
\* existing job, an unknown uuid or a malformed one), every Heartbeat and
\* every MachineSpecsUpdate is answered with auth.not_authenticated and has
\* no effect: no JobStatus row, no heartbeat, no machine specs, no registry
\* entry, and the connection stays unauthenticated and open.
C17_UnauthenticatedRejected ==
    [][\A c \in ConnIds :
         scope[c] = NULL =>
           /\ \A u \in {MALFORMED_UUID, 0, 1}, v \in Statuses, m \in BOOLEAN :
                job_status_update(c, u, v, m) => NotAuthenticated(c)
           /\ heartbeat(c) => NotAuthenticated(c)
           /\ machine_specs_update(c) => NotAuthenticated(c)]_vars

\* An unauthenticated connection was refused while the other one is
\* authenticated and registered; job 1 still has its SENT row only.
C17_Witness ==
    \E c \in ConnIds, d \in ConnIds :
        /\ scope[c] = NULL
        /\ conn[c].state = "open"
        /\ response[c] = "auth.not_authenticated"
        /\ c \notin DOMAIN channels
        /\ scope[d] = "vA"
        /\ DOMAIN channels = {d}
        /\ channels[d].last_heartbeat = 0 /\ now = LIVENESS_WINDOW + 1
        /\ statuses[1] = SentAt(0)
        /\ machine_specs = {}

\* C18: on an authenticated connection a report for an existing job of a
\* status value not yet recorded appends exactly one JobStatus row with that
\* value and is answered with success, with or without the metadata field;
\* the consumer is never stopped by it.
C18_NewStatusRecorded ==
    [][\A c \in ConnIds :
         Reported(c) /\ ~Recorded(handler[c].uuid, handler[c].status) =>
           LET u == handler[c].uuid IN
           /\ statuses' = [statuses EXCEPT ![u] =
                             Append(@, [status |-> handler[c].status, created_at |-> now])]
           /\ response'[c] = "success"
           /\ conn'[c].state = "open"
           /\ scope'[c] = scope[c]]_vars

\* The consumer stopped inside a report, sent without metadata, of a value
\* that job 1 does not have; job 1 still has its SENT row only.
C18_Witness ==
    \E c \in ConnIds :
        /\ conn[c].state = "crashed"
        /\ handler[c] # NoHandler
        /\ ~handler[c].metadata
        /\ handler[c].status = COMPLETED
        /\ statuses[1] = SentAt(0)

\* C19: when the transport of an authenticated connection closes, the
\* connection is closed and exactly its own registry entry is removed, the
\* entries of all other connections staying as they are; a closed connection
\* has no registry entry, so it adds nothing to the connected set, and no
\* job payload is pushed to it any more.
C19_ClosedConnectionUnregistered ==
    /\ [][\A c \in ConnIds :
            /\ disconnect(c) /\ scope[c] # NULL =>
                 /\ conn'[c].state = "closed"
                 /\ c \in DOMAIN channels
                 /\ DOMAIN channels' = DOMAIN channels \ {c}
                 /\ \A d \in DOMAIN channels' : channels'[d] = channels[d]
                 /\ connected_validator_ids(channels', now) =
                      {channels[d].validator :
                         d \in {x \in DOMAIN channels \ {c} : Fresh(x)}}
            /\ conn[c].state = "closed" =>
                 /\ conn'[c] = conn[c]
                 /\ \A u \in Uuids : Pushes(layer', ws_out', c, u) = Pushes(layer, ws_out, c, u)]_vars
    /\ [](\A c \in ConnIds : conn[c].state = "closed" => c \notin DOMAIN channels)

\* A job was saved for a validator after one of its two connections had
\* closed: the payload went to the connection that is left.
C19_Witness ==
    \E c \in ConnIds, d \in ConnIds, p \in Workers :
        /\ conn[c] = Closed(NO_CODE)
        /\ scope[c] = "vA"
        /\ scope[d] = "vA"
        /\ DOMAIN channels = {d}
        /\ result[p].kind = "ok"
        /\ result[p].job.validator = "vA"
        /\ Pushes(layer, ws_out, d, result[p].job.uuid) = 1
        /\ Pushes(layer, ws_out, c, result[p].job.uuid) = 0

\* C13: wait_completed never returns a status that is not terminal: a call
\* ends by returning a FAILED, REJECTED or COMPLETED status, or, when the job
\* has none by the deadline of JOB_TIMEOUT after the start of the wait, by
\* raising JobNotFinishedError.
C13_NoPartialStatus ==
    [][\A p \in Workers :
         wait_completed(p) /\ worker'[p].pc = "idle" =>
           LET u == worker[p].job.uuid IN
           IF Terminal(CurrentStatus(statuses[u]))
           THEN result'[p].kind = "returned" /\ result'[p].value = CurrentStatus(statuses[u])
           ELSE /\ result'[p].kind = "JobNotFinishedError"
                /\ now - worker[p].since >= JOB_TIMEOUT]_vars

\* A wait that began when the job was a second old returned ACCEPTED at
\* its attempt 330 seconds later.
C13_Witness ==
    \E p \in Workers :
        /\ worker[p].pc = "idle"
        /\ result[p].kind = "returned"
        /\ result[p].value = ACCEPTED
        /\ worker[p].polls = JOB_TIMEOUT \div WAIT_FIXED + 1
        /\ now = JOB_TIMEOUT + 1
        /\ CurrentStatus(statuses[1]) = ACCEPTED

\* C14: every call of wait_completed ends. Its attempts are 3 seconds
\* apart, the first at the start of the call; each attempt fetches the job
\* and hands it to on_check once; the call returns at the first attempt at
\* which the job is complete and otherwise raises JobNotFinishedError at the
\* first attempt JOB_TIMEOUT or more after the start, so there are at most
\* JOB_TIMEOUT / 3 + 1 attempts.
C14_WaitTerminates ==
    /\ [][\A p \in Workers :
            wait_completed(p) =>
              LET u == worker[p].job.uuid
                  complete == IsComplete(jobs[u], statuses[u], now)
                  late == now - worker[p].since >= JOB_TIMEOUT
              IN  /\ now = worker[p].since + WAIT_FIXED * worker[p].polls
                  /\ worker'[p].polls = worker[p].polls + 1
                  /\ worker'[p].checks = worker'[p].polls
                  /\ worker'[p].pc = "wait_completed" => worker'[p].job = jobs[u]
                  /\ worker'[p].polls <= JOB_TIMEOUT \div WAIT_FIXED + 1
                  /\ complete => worker'[p].pc = "idle" /\ result'[p].kind = "returned"
                  /\ ~complete /\ late =>
                       worker'[p].pc = "idle" /\ result'[p].kind = "JobNotFinishedError"
                  /\ ~complete /\ ~late =>
                       /\ worker'[p].pc = "wait_completed"
                       /\ worker'[p].next = now + WAIT_FIXED
                       /\ result'[p] = result[p]]_vars
    /\ \A p \in Workers : (worker[p].pc = "wait_completed") ~> (worker[p].pc = "idle")

\* A call that began with the creation of the job raised
\* JobNotFinishedError at its 111th attempt, 330 seconds later.
C14_Witness ==
    \E p \in Workers :
        /\ worker[p].pc = "idle"
        /\ result[p].kind = "JobNotFinishedError"
        /\ worker[p].polls = JOB_TIMEOUT \div WAIT_FIXED + 1
        /\ worker[p].checks = worker[p].polls
        /\ now = JOB_TIMEOUT

\* C20: when a connected validator is deactivated by a metagraph sync, each
\* of its connections is closed by the server with NOT_FOUND as it handles
\* the disconnect request, its registry entry going with it, and after the
\* sync the registry comes to hold no connection of that validator.
C20_DeactivatedValidatorDisconnected ==
    /\ [][\A c \in ConnIds :
            validator_disconnect(c) =>
              /\ conn'[c] = [state |-> "closed", code |-> NOT_FOUND]
              /\ c \notin DOMAIN channels'
              /\ \A d \in DOMAIN channels \ {c} :
                   d \in DOMAIN channels' /\ channels'[d] = channels[d]]_vars
    /\ \A v \in Validators :
         (~validator_active[v]) ~>
             (\A c \in DOMAIN channels : channels[c].validator # v)

\* After the sync the connection that was registered has been closed with
\* NOT_FOUND; the connection whose AuthRequest was looked up before the sync
\* is registered for the deactivated validator, open, with nothing queued.
C20_Witness ==
    /\ ~validator_active["vA"]
    /\ conn["c1"] = Closed(NOT_FOUND)
    /\ DOMAIN channels = {"c2"}
    /\ channels["c2"].validator = "vA"
    /\ scope["c2"] = "vA"
    /\ conn["c2"].state = "open"
    /\ handler["c2"] = NoHandler
    /\ layer["c2"] = <<>>

\* C21: a channel name has at most one Channel row and so one validator; a
\* row exists only for a consumer that authenticated successfully and names
\* the validator whose address the consumer authenticated as; a row keeps
\* its validator as long as it exists, and an AuthRequest on a consumer
\* that has a row changes no row; a validator has any number of rows.
C21_OneEntryPerConnection ==
    /\ [](\A c \in DOMAIN channels :
            /\ c \in ConnIds
            /\ scope[c] \in Validators
            /\ channels[c].validator = scope[c])
    /\ [][/\ \A c \in DOMAIN channels' \ DOMAIN channels :
               /\ scope[c] = NULL
               /\ response'[c] = "success"
               /\ \E a \in Addresses :
                    authenticate(c, a, TRUE) /\ channels'[c].validator = a
          /\ \A c \in DOMAIN channels' \cap DOMAIN channels :
               channels'[c].validator = channels[c].validator
          /\ \A c \in DOMAIN channels, a \in Addresses, ok \in BOOLEAN :
               authenticate(c, a, ok) => channels' = channels
          /\ Cardinality(DOMAIN channels') <=
               Cardinality({c \in ConnIds : scope'[c] # NULL})]_vars

\* Both consumers are registered for vA, the other validators have no row,
\* and one of the two was sent a second AuthRequest.
C21_Witness ==
    /\ DOMAIN channels = ConnIds
    /\ \A c \in ConnIds : channels[c].validator = "vA"
    /\ \E c \in ConnIds : response[c] = "auth.already_authenticated"

\* C27: the current status of a job is its JobStatus row with the latest
\* creation time, not the one with the highest value: after every recorded
\* report, also one that arrives out of order (COMPLETED before ACCEPTED),
\* Job.status is the row that was appended last.
C27_CurrentStatusIsLatestRow ==
    /\ [](\A u \in DOMAIN statuses :
            /\ status(statuses[u]) = Last(statuses[u])
            /\ \A i \in 1..Len(statuses[u]) :
                 statuses[u][i].created_at <= status(statuses[u]).created_at)
    /\ [][\A c \in ConnIds :
            handler[c] # NoHandler /\ handler'[c] = NoHandler /\ statuses' # statuses =>
              LET u == handler[c].uuid IN
                /\ statuses'[u] = Append(statuses[u], Last(statuses'[u]))
                /\ status(statuses'[u]).status = handler[c].status
                /\ status(statuses'[u]).created_at = now]_vars

\* COMPLETED was recorded before ACCEPTED, and the job's status is ACCEPTED.
C27_Witness ==
    /\ 1 \in DOMAIN statuses
    /\ StatusValues(statuses[1]) = <<SENT, COMPLETED, ACCEPTED>>
    /\ status(statuses[1]).status = ACCEPTED
    /\ statuses[1][2].created_at < statuses[1][3].created_at

\* C23: for an untargeted job of a user with a non-empty set of preferred
\* validators the selected validator is preferred and connected whenever
\* such a validator exists; when none exists save raises
\* Validator.DoesNotExist if the preference is exclusive and selects from
\* the whole connected set otherwise. A user without preferences or with
\* an empty preferred set selects from the whole connected set, also when
\* the preference is exclusive.
C23_PreferredValidatorNarrowing ==
    [][\A p \in Workers :
         /\ Selected(p) /\ ~Targeted(worker'[p].job) =>
              LET user == worker'[p].job.user
                  v == worker'[p].job.validator
                  connected == {x \in Validators : Connected(x)}
                  preferred == PreferredValidators(user)
              IN  /\ v \in connected
                  /\ preferred \cap connected # {} => v \in preferred
                  /\ preferred # {} /\ preferred \cap connected = {} => ~Exclusive(user)
         /\ Refused(p) /\ ~Targeted(result'[p].job) =>
              LET user == result'[p].job.user
                  connected == {x \in Validators : Connected(x)}
                  preferred == PreferredValidators(user)
              IN  /\ result'[p].kind = "Validator.DoesNotExist"
                  /\ \/ connected = {}
                     \/ preferred # {} /\ preferred \cap connected = {} /\ Exclusive(user)]_vars

\* vA and vB are connected, vB was used more recently: a job of dave, whose
\* exclusive preference names no validator, was just given vA.
C23_Witness ==
    \E p \in Workers :
        /\ worker[p].pc = "select_miner"
        /\ worker[p].job.user = "dave"
        /\ worker[p].job.created_at = now
        /\ worker[p].job.validator = "vA"
        /\ Connected("vA")
        /\ Connected("vB")
        /\ LastJobTime("vA") < LastJobTime("vB")

\* A miner is eligible when it is active and each of its 10 most recently
\* created jobs is complete.
Eligible(m) ==
    miner_active[m] /\ \A u \in LastTen(m) : IsComplete(jobs[u], statuses[u], now)

\* The candidates of select_miner: the eligible miners, narrowed to the
\* preferred miners of the user when one of them is eligible or the
\* preference is exclusive.
MinerCandidates(user) ==
    LET eligible == {m \in Miners : Eligible(m)}
        preferred == PreferredMiners(user)
    IN  IF preferred # {} /\ (eligible \cap preferred # {} \/ Exclusive(user))
        THEN eligible \cap preferred
        ELSE eligible

\* The creation time of the most recent job of a miner, NULL_TIME when it
\* has none.
LastMinerJobTime(m) ==
    IF \E u \in DOMAIN jobs : jobs[u].miner = m
    THEN Max({jobs[u].created_at : u \in {x \in DOMAIN jobs : jobs[x].miner = m}})
    ELSE NULL_TIME

\* C24: with a non-empty set of preferred miners select_miner returns a
\* preferred eligible miner whenever one exists; when none exists it raises
\* Miner.DoesNotExist if the preference is exclusive and selects among all
\* eligible miners otherwise. A preferred miner that is inactive or has an
\* incomplete job among its last 10 is never selected.
C24_PreferredMinerNarrowing ==
    [][\A p \in Workers :
         /\ MinerSelected(p) =>
              LET user == worker[p].job.user
                  m == worker'[p].job.miner
                  eligible == {x \in Miners : Eligible(x)}
                  preferred == PreferredMiners(user)
              IN  /\ m \in eligible
                  /\ preferred \cap eligible # {} => m \in preferred
                  /\ preferred # {} /\ preferred \cap eligible = {} => ~Exclusive(user)
         /\ MinerRefused(p) =>
              LET user == worker[p].job.user
                  eligible == {x \in Miners : Eligible(x)}
                  preferred == PreferredMiners(user)
              IN  /\ result'[p].kind = "Miner.DoesNotExist"
                  /\ \/ eligible = {}
                     \/ preferred # {} /\ preferred \cap eligible = {} /\ Exclusive(user)]_vars

\* The preferred miner mB is active and has an open job among its last 10:
\* the job of bob was given mA.
C24_Witness ==
    \E p \in Workers :
        /\ worker[p].pc = "send_to_validator"
        /\ worker[p].job.user = "bob"
        /\ worker[p].job.miner = "mA"
        /\ miner_active["mB"]
        /\ ~Eligible("mB")

\* C25: select_miner returns a candidate whose most recent job was created
\* earliest among the candidates, a miner without jobs ranking before every
\* miner with one; it raises Miner.DoesNotExist exactly when there is no
\* candidate.
C25_LeastRecentlyUsedMiner ==
    [][\A p \in Workers :
         /\ MinerSelected(p) =>
              LET m == worker'[p].job.miner
                  candidates == MinerCandidates(worker[p].job.user)
              IN  /\ m \in candidates
                  /\ \A y \in candidates : LastMinerJobTime(m) <= LastMinerJobTime(y)
         /\ MinerRefused(p) =>
              /\ result'[p].kind = "Miner.DoesNotExist"
              /\ MinerCandidates(worker[p].job.user) = {}
         /\ worker[p].pc = "select_miner" /\ ~Targeted(worker[p].job)
              /\ worker'[p] # worker[p] /\ MinerCandidates(worker[p].job.user) = {} =>
              MinerRefused(p)]_vars

\* The miner with the hard-coded address was selected, its last job being
\* 5 seconds old, while a candidate without any job was there.
C25_Witness ==
    \E p \in Workers :
        /\ worker[p].pc = "send_to_validator"
        /\ worker[p].job.miner = DEBUG_ADDRESS
        /\ LastMinerJobTime(DEBUG_ADDRESS) = MinerNow - 5
        /\ \E y \in MinerCandidates(worker[p].job.user) : LastMinerJobTime(y) = NULL_TIME

\* Exactly one of docker_image and raw_script is not empty.
ExactlyOne(job) == job.docker_image # job.raw_script

\* C22: every persisted job, and every job that passes Job.clean, has
\* exactly one of docker_image and raw_script non-empty: a creation with
\* both empty or both non-empty fails, by the form's validation or by the
\* INSERT, and leaves no Job row, no JobStatus row and no payload.
C22_DockerImageXorRawScript ==
    /\ [](\A u \in DOMAIN jobs : ExactlyOne(jobs[u]))
    /\ [](\A p \in Workers :
            worker[p].pc \in {"send_to_validator", "create_status"} => ExactlyOne(worker[p].job))
    /\ [][\A p \in Workers :
            /\ \A u \in Users, d \in BOOLEAN, r \in BOOLEAN :
                 /\ form_valid(p, u, d, r) /\ d = r =>
                      result'[p].kind = "MutuallyExclusiveFieldsError"
                 /\ form_valid(p, u, d, r) /\ result'[p].kind = "MutuallyExclusiveFieldsError"
                      => d = r
            /\ result'[p] # result[p] /\ ~ExactlyOne(result'[p].job) =>
                 /\ result'[p].kind \in {"MutuallyExclusiveFieldsError", "IntegrityError",
                                         "Validator.DoesNotExist", "Miner.DoesNotExist"}
                 /\ worker'[p].pc = "idle"
                 /\ UNCHANGED <<jobs, statuses, layer, ws_out>>
            /\ worker[p].pc = "select_miner" /\ worker'[p] # worker[p]
                 /\ ~ExactlyOne(worker[p].job) => worker'[p].pc = "idle"]_vars

\* The API was given a job without docker image and without script, and a
\* form one with both: the INSERT of the first raised IntegrityError, the
\* validation of the second failed, and there is no row and no payload.
C22_Witness ==
    \E p \in Workers, q \in Workers :
        /\ result[p].kind = "IntegrityError"
        /\ ~result[p].job.docker_image /\ ~result[p].job.raw_script
        /\ result[p].job.validator = "vA"
        /\ result[q].kind = "MutuallyExclusiveFieldsError"
        /\ result[q].job.docker_image /\ result[q].job.raw_script
        /\ jobs = <<>>
        /\ statuses = <<>>
        /\ \A c \in ConnIds : layer[c] = <<>> /\ ws_out[c] = <<>>

\* C26: a creation whose validator selection or miner selection finds no
\* candidate ends with Validator.DoesNotExist or Miner.DoesNotExist, and a
\* creation that ended with one of them left no Job row, no JobStatus row,
\* no payload on any channel and no miner lock held by the caller.
C26_SelectionFailureLeavesNothing ==
    [][\A p \in Workers :
        /\ \A u \in {"alice", "carol"}, d \in BOOLEAN, r \in BOOLEAN :
             /\ perform_create(p, u, d, r) /\ Candidates(u) = {} =>
                  result'[p].kind = "Validator.DoesNotExist"
             /\ form_valid(p, u, d, r) /\ d # r /\ Candidates(u) = {} =>
                  result'[p].kind = "Validator.DoesNotExist"
             /\ perform_create(p, u, d, r) /\ Candidates(u) # {} =>
                  worker'[p].pc = "select_miner"
        /\ /\ worker[p].pc = "select_miner" /\ worker'[p] # worker[p]
           /\ MinerCandidates(worker[p].job.user) = {}
           => result'[p].kind = "Miner.DoesNotExist"
        /\ /\ worker[p].pc = "select_miner" /\ worker'[p] # worker[p]
           /\ MinerCandidates(worker[p].job.user) # {}
           => result'[p].kind # "Miner.DoesNotExist"
        /\ /\ result'[p] # result[p]
           /\ result'[p].kind \in {"Validator.DoesNotExist", "Miner.DoesNotExist"}
           => /\ worker'[p].pc = "idle"
              /\ UNCHANGED <<jobs, statuses, layer, ws_out>>
              /\ result'[p].job.uuid \notin DOMAIN jobs'
              /\ \A m \in Miners : locks'[m] # p]_vars

\* One creation was refused for want of a connected validator that carol
\* accepts, another for want of a miner; neither left a row, a payload or
\* a lock.
C26_Witness ==
    \E p \in Workers, q \in Workers :
        /\ result[p].kind = "Validator.DoesNotExist"
        /\ result[p].job.user = "carol"
        /\ result[q].kind = "Miner.DoesNotExist"
        /\ result[q].job.validator = "vA"
        /\ jobs = <<>>
        /\ statuses = <<>>
        /\ \A c \in ConnIds : layer[c] = <<>> /\ ws_out[c] = <<>>
        /\ \A m \in Miners : locks[m] = NULL

\* C28: a job has at most one feedback row; a signed submission by the
\* owner of a job that has a feedback row when it is answered is answered
\* with Conflict and changes no row, whether the row was there when the
\* request arrived or was created by an overlapping request.
C28_DuplicateFeedbackConflict ==
    [][\A p \in Workers :
        /\ \A u \in {"alice", "bob"}, j \in 1..3, r \in 0..1 :
             /\ feedback_check(p, u, j, TRUE, r)
             /\ j \in DOMAIN jobs /\ jobs[j].user = u /\ j \in DOMAIN feedback
             => result'[p].kind = "Conflict" /\ feedback' = feedback
        /\ /\ feedback_save(p)
           /\ worker[p].job.uuid \in DOMAIN feedback
           => result'[p].kind = "Conflict" /\ feedback' = feedback
        /\ \A j \in DOMAIN feedback : j \in DOMAIN feedback' /\ feedback'[j] = feedback[j]]_vars

\* Two submissions for job 1 overlapped: one created the row, the other
\* found its INSERT refused by the unique index.
C28_Witness ==
    \E p \in Workers, q \in Workers :
        /\ result[p].kind = "ok"
        /\ result[p].job.uuid = 1
        /\ result[q].kind = "IntegrityError"
        /\ result[q].job.uuid = 1
        /\ DOMAIN feedback = {1}
        /\ feedback[1].result_correctness = result[p].value

\* The jobs a read returned.
ReturnedJobs(r) ==
    IF r.kind \in {"detail", "retrieve"} THEN {r.job}
    ELSE IF r.kind = "list" THEN r.value.results
    ELSE {}

\* When a read returned.
ReturnedAt(r) == IF r.kind = "list" THEN r.value.at ELSE r.value

\* C29: no read of a job, by the detail page or by the API's retrieve or
\* list, returns it with a download URL that is expired at the time of the
\* read: the read resets the URL and its expiry and stores them first; a
\* read of a job whose URL is valid changes nothing.
C29_NoReadReturnsExpiredUrl ==
    /\ [](\A p \in Workers : \A job \in ReturnedJobs(result[p]) :
            ~is_download_url_expired(job, ReturnedAt(result[p])))
    /\ [][\A p \in Workers :
            /\ result'[p] # result[p] =>
                 \A job \in ReturnedJobs(result'[p]) : jobs'[job.uuid] = job
            /\ (\A u \in DOMAIN jobs : ~is_download_url_expired(jobs[u], now))
                 /\ now' = now => jobs' = jobs]_vars

\* The API returned job 1 at a time after the expiry of its download URL,
\* with the URL and expiry that are stored.
C29_Witness ==
    /\ result["w1"].kind = "retrieve"
    /\ result["w1"].job = jobs[1]
    /\ result["w1"].value = now
    /\ is_download_url_expired(result["w1"].job, result["w1"].value)

\* C30: an eviction deletes the jobs created before now minus 7 days, with
\* their statuses, and no other: the jobs created at that instant or later
\* stay with their rows as they were, and an eviction that follows at the
\* same time finds nothing to delete.
C30_EvictionDeletesExactlyOldJobs ==
    [][evict_jobs =>
        /\ DOMAIN jobs' = {u \in DOMAIN jobs : jobs[u].created_at >= now - 604800}
        /\ DOMAIN statuses' = DOMAIN jobs'
        /\ \A u \in DOMAIN jobs' : jobs'[u] = jobs[u] /\ statuses'[u] = statuses[u]
        /\ \A u \in DOMAIN jobs' : jobs'[u].created_at >= now' - 604800
        /\ DOMAIN feedback' = DOMAIN feedback \cap DOMAIN jobs'
        /\ \A u \in DOMAIN feedback' : feedback'[u] = feedback[u]]_vars

\* Job 1, created a second more than 7 days ago, is gone with its statuses
\* and its feedback; job 2, created exactly 7 days ago, and the newer job 3
\* are there with their statuses, and job 2 with its feedback.
C30_Witness ==
    /\ DOMAIN jobs = {2, 3}
    /\ DOMAIN statuses = {2, 3}
    /\ DOMAIN feedback = {2}
    /\ jobs[2].created_at = now - JOBS_RETENTION_PERIOD
    /\ jobs[3].created_at > now - JOBS_RETENTION_PERIOD
    /\ Len(statuses[2]) = 2
    /\ now = JOBS_RETENTION_PERIOD + 1

\* C31: when the payload of a new job is pushed to a connection, the job
\* row and its SENT status row are persisted already.
C31_PersistedBeforePush ==
    [][\A c \in ConnIds, u \in Uuids :
        Pushes(layer', ws_out', c, u) > Pushes(layer, ws_out, c, u)
            => u \in DOMAIN jobs /\ Recorded(u, SENT)]_vars

\* The payload of job 1 went out on the socket of c1 while the transaction
\* that creates the job has written neither its SENT row nor its commit.
C31_Witness ==
    /\ worker["w1"].pc = "create_status"
    /\ worker["w1"].job.uuid = 1
    /\ ws_out["c1"] = <<1>>
    /\ 1 \notin DOMAIN jobs
    /\ 1 \notin DOMAIN statuses

\* C32: the lock on the active miners is held by a creation only while it
\* chooses the miner and writes the job row: a creation that is pushing the
\* payload or writing the SENT status holds no lock, and so never keeps the
\* miner selection of another creation waiting.
C32_LockReleasedBeforePush ==
    \A p \in Workers :
        worker[p].pc \in {"send_to_validator", "create_status"} =>
            /\ \A m \in Miners : locks[m] # p
            /\ \A q \in Workers \ {p} : worker[q].pc = "select_miner" => can_lock(q)

\* w1 has pushed its payload and not yet written the SENT status; it holds
\* the lock on mA, and the miner selection of w2 waits for it.
C32_Witness ==
    /\ worker["w1"].pc = "create_status"
    /\ locks["mA"] = "w1"
    /\ Pushes(layer, ws_out, "c1", worker["w1"].job.uuid) = 1
    /\ worker["w2"].pc = "select_miner"
    /\ ~Targeted(worker["w2"].job)
    /\ ~can_lock("w2")

\* C33: every job that passed the selection can be turned into its
\* payload: with version 1 or higher a job with signature-info has no miner
\* and a job without has one, with version 0 the job has a miner, and
\* as_job_request raises neither AssertionError nor AttributeError.
C33_SelectedJobHasPayload ==
    \A p \in Workers :
        worker[p].pc = "send_to_validator" =>
            LET job == worker[p].job
            IN  /\ as_job_request(job, version) \in
                       {"V0JobRequest", "V1JobRequest", "V2JobRequest"}
                /\ version >= 1 /\ job.signature_info => job.miner = NULL
                /\ version >= 1 /\ ~job.signature_info => job.miner # NULL
                /\ version = 0 => job.miner # NULL

\* A signed job without a target was given the miner mA by select_miner,
\* and as_job_request raised AssertionError under version 1: nothing was
\* pushed and no row was kept.
C33_Witness ==
    /\ version = 1
    /\ result["w1"].kind = "AssertionError"
    /\ result["w1"].job.signature_info
    /\ ~Targeted(result["w1"].job)
    /\ result["w1"].job.miner = "mA"
    /\ jobs = <<>>
    /\ \A c \in ConnIds : layer[c] = <<>> /\ ws_out[c] = <<>>

\* C34: a status row is added to a job only by a report that arrived on a
\* connection authenticated as the validator of that job.
C34_OnlyJobsValidatorReports ==
    [][\A c \in ConnIds :
        /\ handler[c] # NoHandler
        /\ handler'[c] = NoHandler
        /\ statuses' # statuses
        => scope[c] = jobs[handler[c].uuid].validator]_vars

\* Job 1 was given to vA; the connection c2, authenticated as vB, reported
\* completed for it, was answered with success, and the row is there.
C34_Witness ==
    /\ scope["c2"] = "vB"
    /\ jobs[1].validator = "vA"
    /\ handler["c1"] = NoHandler
    /\ handler["c2"] = NoHandler
    /\ response["c2"] = "success"
    /\ response["c1"] = "success"
    /\ StatusValues(statuses[1]) = <<SENT, COMPLETED>>
    /\ conn["c1"].state = "open"

\* C35: a job that is complete stays complete under every later status
\* report and every advance of the clock.
C35_CompletionIsMonotonic ==
    [][\A u \in DOMAIN jobs :
        IsComplete(jobs[u], statuses[u], now) =>
            /\ u \in DOMAIN jobs'
            /\ IsComplete(jobs'[u], statuses'[u], now')]_vars

\* Job 1 was reported completed and then accepted: its status is ACCEPTED,
\* it is younger than JOB_TIMEOUT and so not complete any more, and its
\* miner mA, eligible after the first report, is not eligible.
C35_Witness ==
    /\ StatusValues(statuses[1]) = <<SENT, COMPLETED, ACCEPTED>>
    /\ ~IsComplete(jobs[1], statuses[1], now)
    /\ jobs[1].miner = "mA"
    /\ ~Eligible("mA")
    /\ Eligible("mB")
    /\ \A c \in ConnIds : handler[c] = NoHandler

\* C36: every committed job has exactly one SENT row, and no row of its
\* history was created before it, so the current status of every committed
\* job is defined; a report with the status sent is refused by the schema
\* and starts no handler.
C36_OneSentRowFirst ==
    /\ [](\A u \in DOMAIN jobs :
            /\ u \in DOMAIN statuses
            /\ Cardinality({i \in 1..Len(statuses[u]) : statuses[u][i].status = SENT}) = 1
            /\ \A i \in 1..Len(statuses[u]) :
                 statuses[u][i].status = SENT =>
                    \A j \in 1..Len(statuses[u]) :
                       statuses[u][i].created_at <= statuses[u][j].created_at
            /\ status(statuses[u]) \in Range(statuses[u]))
    /\ [][\A c \in ConnIds, u \in Uuids :
            receive(c, u, "sent", TRUE) =>
                /\ response'[c] = "literal_error"
                /\ UNCHANGED <<handler, statuses, conn>>]_vars

\* Job 1 was committed with its SENT row at 0, its validator reported
\* accepted a second later, and a report of sent was refused.
C36_Witness ==
    /\ 1 \in DOMAIN jobs
    /\ StatusValues(statuses[1]) = <<SENT, ACCEPTED>>
    /\ statuses[1][1].created_at < statuses[1][2].created_at
    /\ status(statuses[1]).status = ACCEPTED
    /\ response["c1"] = "literal_error"

\* C37: a report on a job whose payload the validator received finds the
\* job: it is never answered with job.not_found.
C37_ReplyFindsJob ==
    [][\A c \in ConnIds, u \in Uuids, name \in status_literal :
        /\ u \in Range(ws_out[c])
        /\ require_authentication(c)
        /\ receive(c, u, name, TRUE)
        => /\ u \in DOMAIN jobs
           /\ handler'[c].uuid = u
           /\ response'[c] # "job.not_found"]_vars

\* The validator received the payload of job 1 on c1 and answered with a
\* report while the creating transaction had not committed: the report was
\* answered with job.not_found, and the job was committed afterwards with
\* the status SENT and nothing else.
C37_Witness ==
    /\ ws_out["c1"] = <<1>>
    /\ response["c1"] = "job.not_found"
    /\ handler["c1"] = NoHandler
    /\ result["w1"].kind = "ok"
    /\ 1 \in DOMAIN jobs
    /\ StatusValues(statuses[1]) = <<SENT>>

\* C38: a creation that failed left its payload with no connection: every
\* payload in a channel or on a socket belongs to a job that is being
\* created or is persisted with the status SENT.
C38_NoPayloadOfFailedCreation ==
    /\ [][\A p \in Workers :
            result'[p] # result[p] /\ result'[p].kind \notin {"ok", "none"} =>
                \A c \in ConnIds : Pushes(layer', ws_out', c, result'[p].job.uuid) = 0]_vars
    /\ [](\A c \in ConnIds, u \in Uuids :
            Pushes(layer, ws_out, c, u) > 0 =>
                \/ \E p \in Workers : worker[p].pc = "create_status" /\ worker[p].job.uuid = u
                \/ u \in DOMAIN jobs /\ Recorded(u, SENT))

\* Both c1 and c2 are connections of vA; the payload of job 1 was pushed to
\* c1 and forwarded to the validator, the push to c2 raised, the creation
\* failed and was rolled back: there is no job 1.
C38_Witness ==
    /\ scope["c2"] = "vA"
    /\ result["w1"].kind = "ChannelLayerError"
    /\ result["w1"].job.uuid = 1
    /\ ws_out["c1"] = <<1>>
    /\ Pushes(layer, ws_out, "c2", 1) = 0
    /\ worker["w1"].pc = "idle"
    /\ jobs = <<>>
    /\ statuses = <<>>

\* C39: a job whose validator was chosen by select_validator among the
\* connected ones is committed only with its payload pushed to at least one
\* connection.
C39_CommittedJobWasPushed ==
    [][\A p \in Workers :
        /\ worker[p].pc = "create_status"
        /\ result'[p].kind = "ok"
        /\ ~Targeted(worker[p].job)
        => \E c \in ConnIds : Pushes(layer', ws_out', c, worker[p].job.uuid) >= 1]_vars

\* vA was chosen while its only connection c1 was registered; c1 closed
\* before send_to_validator read the channels: job 1 is committed for vA
\* with the status SENT and no connection was given its payload.
C39_Witness ==
    /\ result["w1"].kind = "ok"
    /\ ~Targeted(result["w1"].job)
    /\ 1 \in DOMAIN jobs
    /\ jobs[1].validator = "vA"
    /\ StatusValues(statuses[1]) = <<SENT>>
    /\ \A c \in ConnIds : Pushes(layer, ws_out, c, 1) = 0
    /\ conn["c1"].state = "closed"
    /\ channels = <<>>

====
